---- MODULE Spec2Model ----
(***************************************************************************)
(* Model of the frida-il2cpp-toolkit hooking engine.                       *)
(*                                                                         *)
(*   Part I   rate-limited hook installation                               *)
(*            (hookManager.installHooks, core.hookMethods, and the logger  *)
(*            plugin that starts one hookMethods run per target class)     *)
(*   Part II  the interceptor callbacks of an installed hook               *)
(*            (onEnter / onLeave and the per-invocation context)           *)
(*   Part III the value formatters                                         *)
(*            (formatArg, formatReturn, previewObject, summarizeFieldValue *)
(*            and the readers of utils.js they are built from)             *)
(*   Part IV  the life of a listener: attach, plugin stop, stopAll         *)
(*   Part V   class resolution and method lists                            *)
(*            (hookManager.findClass, hookManager.buildMethodList)         *)
(*   Part VI  object dumps (formatters.dumpObjectFields, canDumpPtr)       *)
(*   Part VII the plugin manager (main.js: load, startAll, stopAll)        *)
(*   Part VIII the skip mode of the combat-anim plugin                     *)
(*            (hookSkipTargets, scheduleFinish, finishStep, stop)          *)
(***************************************************************************)
EXTENDS Integers, Sequences, FiniteSets, TLC

(***************************************************************************)
(* Bounds of the model.                                                    *)
(***************************************************************************)
MaxMethods == 5        \* longest method list handed to one installation run
MaxFairMethods == 3    \* longest method list of the runs followed to their end
MaxTargets == 2        \* most target classes of one logger session
MaxTargetMethods == 2  \* longest method list per target in a multi-target session
MaxHooksCfg == 3       \* largest configured maxHooks
MaxDelayCfg == 1       \* largest configured inter-install delay (ms)
MaxJitter == 1         \* a timer fires at most this long after it is due
MaxHooked == 2         \* hooks that receive calls
MaxInvocations == 3    \* intercepted invocations in flight or finished
MaxStringLength == 3   \* largest configured string cap (characters)
MaxObjectFields == 2   \* largest configured number of previewed fields
MaxDictEntries == 1    \* largest configured number of previewed dictionary entries
MaxCalls == 2          \* formatter calls made on one input
MaxListeners == 3      \* listeners attached by the plugins of one session
MaxPickIndex == 3      \* largest configured pickIndex
MaxRepeats == 1        \* repeated resolutions of one target
MaxClassMethods == 2   \* methods of the class handed to buildMethodList
MaxDumpCalls == 3      \* objects of one type name that pass canDumpPtr
MaxPerTypeCfg == 2     \* largest configured dump.maxPerType
MaxSteps == 2          \* step objects whose methods are intercepted
MaxFinishDelay == 1    \* largest configured skip.finishDelayMs
MaxPendingTimers == 1  \* setTimeout callbacks pending for one step
MaxFrames == 2         \* intercepted calls of skip targets in flight at once
MaxFinishes == 2       \* finish invocations counted per step

(***************************************************************************)
(* Program constants.                                                      *)
(***************************************************************************)
DefaultDelayMs == 25   \* installHooks: options.delayMs || 25
DefaultMaxHooks == 300 \* installHooks: options.maxHooks || (LIMITS?.MAX_HOOKS || 300)

NoTimer == -1

VARIABLES
  session,    \* what was started: "none", "installHooks" or "logger"
  runs,       \* RunIds -> the closure state of one installation run
  now,        \* the clock (ms)
  turn,       \* number of scheduler turns (script entry, timer callbacks) so far
  attachLog,  \* every Interceptor.attach call made, in order
  hooks,      \* HookIds -> the installer whose callbacks are attached, or "none"
  inv,        \* InvIds -> one intercepted invocation and its `this` object
  classTypeCache,  \* utils.classTypeCache: class full name -> "dictionary", "list", "other"
  enumCache,       \* formatters.enumCache: enum type name -> value-to-name map
  calls,           \* formatter calls made so far
  lastCall,        \* the latest formatter call: its function, inputs and outcome
  plugState,       \* Plugins -> "idle", "started" or "stopped"
  life,            \* LifeIds -> one interceptor listener: its owner and state
  retained,        \* Plugins -> the listeners whose handle the plugin holds
  domain,          \* the host's assemblies and their classes, in enumeration order
  resolved,        \* the latest resolution call: its function, input and result
  dumpConfig,      \* config.dump, the options handed to every dumpObjectFields call
  dumpState,       \* formatters.dumpState: the keys seen and the count per type name
  dumped,          \* (type name, address) -> dump blocks printed since the last clear
  manager,         \* PluginManager: its plugins and its activePlugins
  lifecycle,       \* what main did so far, and how each plugin's init, start and stop went
  skipConfig,      \* combat-anim: config.skip
  animState,       \* combat-anim: the plugin's state object
  frames,          \* FrameIds -> one intercepted call of a skip target and where it is
  finishTimers,    \* step -> the setTimeout callbacks of scheduleFinish not yet run
  timerCall,       \* the step whose finish method a timer callback is invoking, or 0
  finishes         \* step -> the finish method invocations that returned normally

installVars == <<session, runs, now, turn, attachLog>>
callVars == <<hooks, inv>>
decodeVars == <<classTypeCache, enumCache, calls, lastCall>>
lifeVars == <<plugState, life, retained>>
resolveVars == <<domain, resolved>>
dumpVars == <<dumpConfig, dumpState, dumped>>
managerVars == <<manager, lifecycle>>
skipVars == <<skipConfig, animState, frames, finishTimers, timerCall, finishes>>
extVars == <<dumpVars, managerVars, skipVars>>
vars == <<session, runs, now, turn, attachLog, hooks, inv,
          classTypeCache, enumCache, calls, lastCall,
          plugState, life, retained, domain, resolved,
          dumpConfig, dumpState, dumped, manager, lifecycle,
          skipConfig, animState, frames, finishTimers, timerCall, finishes>>

(***************************************************************************)
(* Methods.  A method of the list handed to an installer is one of         *)
(*   "ok"      it has an address and the host accepts the attach           *)
(*   "noaddr"  neither __hookAddress nor virtualAddress gives an address   *)
(*   "reject"  it has an address but Interceptor.attach throws             *)
(***************************************************************************)
MethodKinds == {"ok", "noaddr", "reject"}

SeqsUpTo(S, n) == UNION {[1..k -> S] : k \in 0..n}

Min(a, b) == IF a <= b THEN a ELSE b

RECURSIVE CountKind(_, _, _)
\* number of methods among the first n of ms whose kind is in ks
CountKind(ms, n, ks) ==
  IF n = 0 THEN 0
  ELSE CountKind(ms, n - 1, ks) + (IF ms[n] \in ks THEN 1 ELSE 0)

RunIds == 1..MaxTargets

UnusedRun ==
  [kind |-> "none", methods |-> <<>>, toInstall |-> <<>>,
   cfgMaxHooks |-> 0, cfgDelay |-> 0, maxHooks |-> 0, delayMs |-> 0,
   idx |-> 0, hooked |-> 0, failed |-> 0,
   state |-> "unused", due |-> NoTimer, report |-> <<>>]

(***************************************************************************)
(* hookManager.installHook: the address check and the attach.              *)
(***************************************************************************)
\* does installHook / the hookMethods body reach Interceptor.attach for m
attachCalled(m) == m # "noaddr"

\* installHook's return value: true when the attach went through
installHook(m) == m = "ok"

(***************************************************************************)
(* hookManager.installHooks.                                               *)
(***************************************************************************)
\* variant without the default: a delay of 0 is taken as it is
effectiveDelayNoDefault(d) == d

\* const delayMs = options.delayMs || 25
effectiveDelay(d) == IF d = 0 THEN DefaultDelayMs ELSE d

\* const maxHooks = options.maxHooks || (LIMITS?.MAX_HOOKS || 300)
\* (LIMITS defines no MAX_HOOKS)
effectiveMaxHooks(mh) == IF mh = 0 THEN DefaultMaxHooks ELSE mh

\* const toInstall = methods.slice(0, maxHooks)
sliceMethods(ms, mh) == SubSeq(ms, 1, Min(Len(ms), mh))

\* after one install: setTimeout when delayMs > 0, else a direct call
schedulesTimer(delayMs) == delayMs > 0

logEntry(rid, index, m, t, tn) ==
  [run |-> rid, meth |-> index, ok |-> installHook(m), time |-> t, turn |-> tn]

RECURSIVE installNext(_, _, _, _, _)
\* installNext(index) of run rid, running at time t in turn tn.  index is
\* 1-based here; st carries the run's closure state and the attach log.
installNext(st, rid, index, t, tn) ==
  LET r == st.run IN
  IF index > Len(r.toInstall)
  THEN [run |-> [r EXCEPT !.state = "done", !.due = NoTimer,
                          !.report = <<r.hooked, r.failed>>],
        log |-> st.log]
  ELSE
    LET m == r.toInstall[index]
        success == installHook(m)
        r2 == [r EXCEPT !.idx = index,
                        !.hooked = IF success THEN @ + 1 ELSE @,
                        !.failed = IF success THEN @ ELSE @ + 1]
        log2 == IF attachCalled(m)
                THEN Append(st.log, logEntry(rid, index, m, t, tn))
                ELSE st.log
    IN IF schedulesTimer(r.delayMs)
       THEN [run |-> [r2 EXCEPT !.due = t + r.delayMs], log |-> log2]
       ELSE installNext([run |-> [r2 EXCEPT !.due = NoTimer], log |-> log2],
                        rid, index + 1, t, tn)

\* the closure state installHooks sets up before installNext(0)
newInstallHooksRun(ms, mh, d) ==
  [UnusedRun EXCEPT !.kind = "installHooks", !.methods = ms,
                    !.toInstall = sliceMethods(ms, effectiveMaxHooks(mh)),
                    !.cfgMaxHooks = mh, !.cfgDelay = d,
                    !.maxHooks = effectiveMaxHooks(mh),
                    !.delayMs = effectiveDelay(d),
                    !.state = "running"]

\* installHooks(methods, implementation, {delayMs, maxHooks}) is called with
\* a list of at most len methods
installHooksCalled(len) ==
  /\ session = "none"
  /\ \E ms \in SeqsUpTo(MethodKinds, len), mh \in 0..MaxHooksCfg,
        d \in 0..MaxDelayCfg :
       LET st == installNext([run |-> newInstallHooksRun(ms, mh, d), log |-> attachLog],
                             1, 1, now, turn + 1)
       IN /\ runs' = [runs EXCEPT ![1] = st.run]
          /\ attachLog' = st.log
  /\ session' = "installHooks"
  /\ turn' = turn + 1
  /\ UNCHANGED <<now, callVars, decodeVars, lifeVars, resolveVars, extVars>>

StartInstallHooks == installHooksCalled(MaxMethods)

\* the same call in a session whose classes have few methods
StartInstallHooksShort == installHooksCalled(MaxFairMethods)

\* the timer set by installNext fires: () => installNext(index + 1)
InstallTimerFires(rid) ==
  /\ runs[rid].kind = "installHooks"
  /\ runs[rid].state = "running"
  /\ runs[rid].due # NoTimer
  /\ runs[rid].due <= now
  /\ LET st == installNext([run |-> [runs[rid] EXCEPT !.due = NoTimer], log |-> attachLog],
                           rid, runs[rid].idx + 1, now, turn + 1)
     IN /\ runs' = [runs EXCEPT ![rid] = st.run]
        /\ attachLog' = st.log
  /\ turn' = turn + 1
  /\ UNCHANGED <<session, now, callVars, decodeVars, lifeVars, resolveVars, extVars>>

(***************************************************************************)
(* core.hookMethods.                                                       *)
(***************************************************************************)
\* variant that also gives up once an install has failed
intervalStopsOnFailure(r) ==
  r.idx >= Len(r.methods) \/ r.hooked >= r.maxHooks \/ r.failed > 0

\* the stop test of the interval callback:
\*   idx >= methods.length || hooked >= config.performance.maxHooks
intervalStops(r) == r.idx >= Len(r.methods) \/ r.hooked >= r.maxHooks

\* variant whose index starts behind the first method
newHookMethodsRunFromOne(ms, mh, d, t) ==
  [UnusedRun EXCEPT !.kind = "hookMethods", !.methods = ms, !.toInstall = ms,
                    !.cfgMaxHooks = mh, !.cfgDelay = d,
                    !.maxHooks = mh, !.delayMs = d, !.idx = 1,
                    !.state = "running", !.due = t + d]

\* the closure state hookMethods sets up; the interval is armed at t
newHookMethodsRun(ms, mh, d, t) ==
  [UnusedRun EXCEPT !.kind = "hookMethods", !.methods = ms, !.toInstall = ms,
                    !.cfgMaxHooks = mh, !.cfgDelay = d,
                    !.maxHooks = mh, !.delayMs = d,
                    !.state = "running", !.due = t + d]

\* one firing of the setInterval callback of run r at time t in turn tn
intervalBody(st, rid, t, tn) ==
  LET r == st.run IN
  IF intervalStops(r)
  THEN [run |-> [r EXCEPT !.state = "done", !.due = NoTimer,
                          !.report = <<r.hooked, r.failed, Len(r.methods)>>],
        log |-> st.log]
  ELSE
    LET index == r.idx + 1
        m == r.methods[index]
        success == installHook(m)
    IN [run |-> [r EXCEPT !.idx = index,
                          !.hooked = IF success THEN @ + 1 ELSE @,
                          !.failed = IF success THEN @ ELSE @ + 1,
                          !.due = t + r.delayMs],
        log |-> IF attachCalled(m)
                THEN Append(st.log, logEntry(rid, index, m, t, tn))
                ELSE st.log]

\* the method lists of the n targets of a session: one list of at most len
\* methods, or several lists of at most MaxTargetMethods
TargetLists(n, len) ==
  IF n = 1 THEN {<<ms>> : ms \in SeqsUpTo(MethodKinds, len)}
  ELSE [1..n -> SeqsUpTo(MethodKinds, Min(len, MaxTargetMethods))]

\* LoggerPlugin.start: one hookMethods call per resolved target, all in the
\* same turn and all with the session's performance configuration
loggerStarted(len) ==
  /\ session = "none"
  /\ \E n \in 1..MaxTargets, mh \in 0..MaxHooksCfg, d \in 0..MaxDelayCfg,
        enabled \in BOOLEAN :
       \E ts \in TargetLists(n, len) :
         runs' = [rid \in RunIds |->
                    IF rid <= n /\ enabled
                    THEN newHookMethodsRun(ts[rid], mh, d, now)
                    ELSE UnusedRun]
  /\ session' = "logger"
  /\ turn' = turn + 1
  /\ UNCHANGED <<now, attachLog, callVars, decodeVars, lifeVars, resolveVars, extVars>>

LoggerStart == loggerStarted(MaxMethods)

LoggerStartShort == loggerStarted(MaxFairMethods)

\* the interval of run rid fires
IntervalFires(rid) ==
  /\ runs[rid].kind = "hookMethods"
  /\ runs[rid].state = "running"
  /\ runs[rid].due <= now
  /\ LET st == intervalBody([run |-> runs[rid], log |-> attachLog], rid, now, turn + 1)
     IN /\ runs' = [runs EXCEPT ![rid] = st.run]
        /\ attachLog' = st.log
  /\ turn' = turn + 1
  /\ UNCHANGED <<session, now, callVars, decodeVars, lifeVars, resolveVars, extVars>>

(***************************************************************************)
(* The scheduler: time passes while no timer is due; the next timer then   *)
(* becomes due, possibly late.                                             *)
(***************************************************************************)
Pending == {rid \in RunIds : runs[rid].state = "running" /\ runs[rid].due # NoTimer}

Advance ==
  /\ Pending # {}
  /\ \A rid \in Pending : runs[rid].due > now
  /\ \E rid \in Pending, j \in 0..MaxJitter :
       /\ \A o \in Pending : runs[rid].due <= runs[o].due
       /\ now' = runs[rid].due + j
  /\ UNCHANGED <<session, runs, turn, attachLog, callVars, decodeVars, lifeVars, resolveVars, extVars>>


(***************************************************************************)
(* Part II.  Interceptor callbacks.                                        *)
(*                                                                         *)
(* The host calls onEnter when a hooked method is entered and onLeave when *)
(* it returns, also when onEnter threw; `this` is an object of the one     *)
(* invocation, shared by its onEnter and onLeave and by nothing else.      *)
(* Callbacks of different invocations interleave in any order.             *)
(***************************************************************************)
HookIds == 1..MaxHooked
InvIds == 1..MaxInvocations

Installers == {"installHook", "hookMethods"}

NoCtx == [stored |-> FALSE, owner |-> 0]

IdleInv ==
  [hook |-> 0, phase |-> "idle", ctx |-> NoCtx,
   enter |-> "none", leave |-> "none", usedCtxOf |-> 0,
   logged |-> 0, recorded |-> 0, escaped |-> 0]

\* where the code run by a callback may throw
\*   onEnter of hookMethods: "beforeStore" is argument formatting and the
\*     read of the receiver, "afterStore" is the output, the dump and the
\*     stack trace that follow the assignment of this.__ctx
\*   onEnter of installHook: the consumer's implementation ("beforeStore")
\*   onLeave of hookMethods: return formatting and output ("inLeave")
EnterFaults == {"none", "beforeStore", "afterStore"}
LeaveFaults == {"none", "inLeave"}

\* a successful attach by one of the installers puts its callbacks on hook h
AttachHook(h) ==
  /\ hooks[h] = "none"
  /\ \E k \in Installers, m \in MethodKinds :
       hooks' = [hooks EXCEPT ![h] = IF installHook(m) THEN k ELSE "none"]
  /\ UNCHANGED <<installVars, inv, decodeVars, lifeVars, resolveVars, extVars>>

\* installHook's onEnter: try { implementation(...) } catch (e) { ui.error(...) }
managerOnEnter(v, fault) ==
  IF fault = "none"
  THEN [v EXCEPT !.phase = "entered", !.enter = "returned", !.logged = @ + 1]
  ELSE [v EXCEPT !.phase = "entered", !.enter = "returned", !.recorded = @ + 1]

\* hookMethods' onEnter: formats the arguments, stores this.__ctx, then
\* prints the call; nothing in it catches
loggerOnEnter(v, i, fault) ==
  IF fault = "beforeStore"
  THEN [v EXCEPT !.phase = "entered", !.enter = "threw", !.escaped = @ + 1]
  ELSE IF fault = "afterStore"
  THEN [v EXCEPT !.phase = "entered", !.enter = "threw", !.escaped = @ + 1,
                 !.ctx = [stored |-> TRUE, owner |-> i]]
  ELSE [v EXCEPT !.phase = "entered", !.enter = "returned", !.logged = @ + 1,
                 !.ctx = [stored |-> TRUE, owner |-> i]]

\* the target enters the method of hook h: invocation i begins
OnEnter(i, h) ==
  /\ hooks[h] # "none"
  /\ inv[i].phase = "idle"
  /\ \E fault \in EnterFaults :
       inv' = [inv EXCEPT ![i] =
                 IF hooks[h] = "installHook"
                 THEN managerOnEnter([@ EXCEPT !.hook = h], fault)
                 ELSE loggerOnEnter([@ EXCEPT !.hook = h], i, fault)]
  /\ UNCHANGED <<installVars, hooks, decodeVars, lifeVars, resolveVars, extVars>>

\* variant of the guard that lets every invocation through
leaveGuardMissing(ctx) == FALSE

\* onLeave's guard: if (!this.__ctx) return;
leaveGuard(ctx) == ~ctx.stored

\* hookMethods' onLeave
loggerOnLeave(v, fault) ==
  IF leaveGuard(v.ctx)
  THEN [v EXCEPT !.phase = "left", !.leave = "noop"]
  ELSE IF ~v.ctx.stored
  THEN \* destructuring an undefined this.__ctx throws
       [v EXCEPT !.phase = "left", !.leave = "threw", !.escaped = @ + 1]
  ELSE IF fault = "inLeave"
  THEN [v EXCEPT !.phase = "left", !.leave = "threw", !.escaped = @ + 1,
                 !.usedCtxOf = v.ctx.owner]
  ELSE [v EXCEPT !.phase = "left", !.leave = "used", !.logged = @ + 1,
                 !.usedCtxOf = v.ctx.owner]

\* the method of invocation i returns; installHook registers no onLeave
OnLeave(i) ==
  /\ inv[i].phase = "entered"
  /\ \E fault \in LeaveFaults :
       inv' = [inv EXCEPT ![i] =
                 IF hooks[@.hook] = "installHook"
                 THEN [@ EXCEPT !.phase = "left"]
                 ELSE loggerOnLeave(@, fault)]
  /\ UNCHANGED <<installVars, hooks, decodeVars, lifeVars, resolveVars, extVars>>

(***************************************************************************)
(* Part III.  The value formatters.                                        *)
(*                                                                         *)
(* Texts (type names, string contents, output) are sequences of one-       *)
(* character strings; a number printed into an output is one element.      *)
(***************************************************************************)
Upper == <<"A","B","C","D","E","F","G","H","I","J","K","L","M",
           "N","O","P","Q","R","S","T","U","V","W","X","Y","Z">>
Lower == <<"a","b","c","d","e","f","g","h","i","j","k","l","m",
           "n","o","p","q","r","s","t","u","v","w","x","y","z">>

toLowerChar(c) ==
  IF \E k \in 1..26 : Upper[k] = c
  THEN Lower[CHOOSE k \in 1..26 : Upper[k] = c]
  ELSE c

\* String.prototype.toLowerCase
toLowerCase(s) == [k \in 1..Len(s) |-> toLowerChar(s[k])]

\* sub occurs in s at position p (1-based)
occursAt(s, sub, p) ==
  /\ p >= 1
  /\ p + Len(sub) - 1 <= Len(s)
  /\ \A k \in 1..Len(sub) : s[p + k - 1] = sub[k]

\* String.prototype.includes
includes(s, sub) == \E p \in 1..(Len(s) + 1) : occursAt(s, sub, p)

\* String.prototype.endsWith
endsWith(s, sub) == occursAt(s, sub, Len(s) - Len(sub) + 1)

\* String.prototype.startsWith
startsWith(s, sub) == occursAt(s, sub, 1)

\* String.prototype.slice(0, n)
slice0(s, n) ==
  LET e == IF n < 0 THEN (IF Len(s) + n < 0 THEN 0 ELSE Len(s) + n)
           ELSE Min(n, Len(s))
  IN SubSeq(s, 1, e)

\* typeName.replace("[]", ""): the first "[]" is removed
replaceBrackets(s) ==
  IF includes(s, <<"[","]">>)
  THEN LET p == CHOOSE q \in 1..Len(s) :
                  /\ occursAt(s, <<"[","]">>, q)
                  /\ \A o \in 1..(q - 1) : ~occursAt(s, <<"[","]">>, o)
       IN SubSeq(s, 1, p - 1) \o SubSeq(s, p + 2, Len(s))
  ELSE s

\* typeName.replace(/^.*\./, ""): what follows the last dot
normalizeTypeName(typeName) ==
  IF includes(typeName, <<".">>)
  THEN LET p == CHOOSE q \in 1..Len(typeName) :
                  /\ typeName[q] = "."
                  /\ \A o \in (q + 1)..Len(typeName) : typeName[o] # "."
       IN SubSeq(typeName, p + 1, Len(typeName))
  ELSE typeName

isPrimitiveName(baseName) ==
  baseName \in {<<"B","o","o","l","e","a","n">>, <<"I","n","t","3","2">>, <<"U","I","n","t","3","2">>, <<"I","n","t","6","4">>, <<"U","I","n","t","6","4">>,
                <<"I","n","t","1","6">>, <<"U","I","n","t","1","6">>, <<"S","B","y","t","e">>, <<"B","y","t","e">>, <<"C","h","a","r">>}

\* /(^|\.)String(&|$)/.test(typeName)
isStringType(typeName) ==
  \E p \in 1..Len(typeName) :
    /\ occursAt(typeName, <<"S","t","r","i","n","g">>, p)
    /\ (p = 1 \/ typeName[p - 1] = ".")
    /\ (p + 6 > Len(typeName) \/ typeName[p + 6] = "&")

isByteArrayType(typeName) ==
  /\ Len(typeName) > 0
  /\ includes(toLowerCase(typeName), <<"b","y","t","e">>)
  /\ includes(toLowerCase(typeName), <<"[">>)

isArrayType(typeName) ==
  /\ Len(typeName) > 0
  /\ includes(typeName, <<"[">>)
  /\ includes(typeName, <<"]">>)

isByRefType(typeName) == endsWith(typeName, <<"&">>)

(***************************************************************************)
(* Numbers.                                                                *)
(***************************************************************************)
HexChars == <<"0","1","2","3","4","5","6","7","8","9","a","b","c","d","e","f">>

RECURSIVE hexDigits(_)
hexDigits(n) ==
  IF n < 16 THEN <<HexChars[n + 1]>>
  ELSE hexDigits(n \div 16) \o <<HexChars[(n % 16) + 1]>>

\* NativePointer.prototype.toString
ptrToString(a) == <<"0","x">> \o hexDigits(a)

\* a 32-bit word as two 16-bit halves
Word(hi, lo) == [hi |-> hi, lo |-> lo]

\* NativePointer.prototype.toInt32 of the word read at a header
toInt32(w) ==
  IF w.hi >= 32768 THEN (w.hi - 65536) * 65536 + w.lo
  ELSE w.hi * 65536 + w.lo

\* utils.formatSize; toFixed(1) rounds to one decimal
formatSize(bytes) ==
  IF bytes < 1024 THEN <<ToString(bytes)>>
  ELSE IF bytes < 1024 * 1024
  THEN LET t == (bytes * 10 + 512) \div 1024
       IN <<ToString(t \div 10), ".", ToString(t % 10), " ", "K", "B">>
  ELSE LET t == ((bytes \div 1024) * 10 + 512) \div 1024
       IN <<ToString(t \div 10), ".", ToString(t % 10), " ", "M", "B">>

(***************************************************************************)
(* Values and memory.                                                      *)
(*                                                                         *)
(* A value handed to a formatter is [k, a, cell]: k = "undef" is a null or *)
(* undefined JavaScript value, k = "ptr" a NativePointer with address a    *)
(* (0 is NULL; for a primitive or enum parameter a is the value itself)    *)
(* and cell what the target's memory holds at a.                           *)
(***************************************************************************)
OFF_ARRAY_MAX_LENGTH == 24   \* OFFSETS.ARRAY_MAX_LENGTH
OFF_ARRAY_DATA == 32         \* arrayPtr.add(0x20)
OFF_LIST_SIZE == 24          \* OFFSETS.LIST_SIZE
OFF_DICT_ENTRIES_PTR == 24   \* OFFSETS.DICT_ENTRIES_PTR
OFF_DICT_COUNT == 32         \* OFFSETS.DICT_COUNT
OFF_ENTRIES_ITEMS == 32      \* entriesPtr.add(0x20)
DICT_ENTRY_SIZE == 24        \* OFFSETS.DICT_ENTRY_SIZE
DICT_ENTRY_HASHCODE == 0     \* OFFSETS.DICT_ENTRY_HASHCODE
DICT_ENTRY_KEY == 8          \* OFFSETS.DICT_ENTRY_KEY
DICT_ENTRY_VALUE == 16       \* OFFSETS.DICT_ENTRY_VALUE
MAX_ARRAY_LENGTH == 1048576  \* LIMITS.MAX_ARRAY_LENGTH
LargeArrayLength == 1048576  \* readByteArraySummary: length > 1024 * 1024
DefaultPreviewBytes == 20    \* maxPreviewBytes || 20
Readable == 2000000          \* unreadableFrom of an array whose data is all readable

BaseCell ==
  [kind |-> "none",
   \* array
   hdrReadable |-> FALSE, hdr |-> Word(0, 0), nz |-> {}, unreadableFrom |-> 0,
   \* managed string
   strFails |-> TRUE, content |-> <<>>,
   \* object
   ctorFails |-> TRUE, classFails |-> TRUE, ns |-> <<>>, name |-> <<>>,
   fieldsFail |-> TRUE, fields |-> <<>>, toStr |-> [has |-> FALSE, fails |-> FALSE, null |-> TRUE, content |-> <<>>],
   \* list and dictionary headers
   countReadable |-> FALSE, count |-> 0,
   entriesNull |-> TRUE, entriesReadable |-> FALSE, entries |-> <<>>]

Undef == [k |-> "undef", a |-> 0, cell |-> BaseCell]
Ptr(a, cell) == [k |-> "ptr", a |-> a, cell |-> cell]
NullPtr == Ptr(0, BaseCell)

isFalsy(p) == p.k = "undef"      \* !ptr
isNullPtr(p) == p.a = 0          \* ptr.isNull()

\* the byte at data index i of an array cell
byteAt(cell, i) == IF i \in cell.nz THEN 7 ELSE 0

(***************************************************************************)
(* Results.  A formatter call ends with a text, with null, or by throwing; *)
(* eff accumulates what the call did: the raw memory reads <<address,      *)
(* offset>>, the methods of the target it invoked, and its writes to the   *)
(* module-level caches.                                                    *)
(***************************************************************************)
Ret(text, eff) == [thrown |-> FALSE, isNull |-> FALSE, text |-> text, eff |-> eff]
RetNull(eff) == [thrown |-> FALSE, isNull |-> TRUE, text |-> <<>>, eff |-> eff]
Throw(eff) == [thrown |-> TRUE, isNull |-> FALSE, text |-> <<>>, eff |-> eff]

NewEff(ctc, ec) == [reads |-> {}, invoked |-> 0, ctc |-> ctc, ec |-> ec]
withReads(eff, locs) == [eff EXCEPT !.reads = @ \cup locs]

\* x || fallback for a result that is null
orElse(r, text) == IF r.isNull THEN Ret(text, r.eff) ELSE r

(***************************************************************************)
(* utils.readByteArraySummary.                                             *)
(***************************************************************************)
RECURSIVE sampleScan(_, _, _, _, _)
\* the loop over samplePositions from position k on; all sampled bytes so
\* far were zero
sampleScan(p, length, positions, k, eff) ==
  IF k > Len(positions) THEN [thrown |-> FALSE, allZeros |-> TRUE, eff |-> eff]
  ELSE LET pos == positions[k]
           eff2 == withReads(eff, {<<p.a, OFF_ARRAY_DATA + pos>>})
       IN IF ~(pos < length) THEN sampleScan(p, length, positions, k + 1, eff)
          ELSE IF pos >= p.cell.unreadableFrom
          THEN [thrown |-> TRUE, allZeros |-> TRUE, eff |-> eff2]
          ELSE IF byteAt(p.cell, pos) # 0
          THEN [thrown |-> FALSE, allZeros |-> FALSE, eff |-> eff2]
          ELSE sampleScan(p, length, positions, k + 1, eff2)

\* variant that forgets the upper limit of the length test
lengthIsMalformedNoCap(length) == length < 0

\* length < 0 || length > LIMITS.MAX_ARRAY_LENGTH
lengthIsMalformed(length) == length < 0 \/ length > MAX_ARRAY_LENGTH

\* variant that previews maxPreviewBytes bytes whatever the length
previewLengthNoMin(length, maxPreviewBytes) == maxPreviewBytes

\* const previewLen = Math.min(length, maxPreviewBytes)
previewLength(length, maxPreviewBytes) == Min(length, maxPreviewBytes)

readByteArraySummary(p, maxPreviewBytes, eff) ==
  IF isFalsy(p) \/ isNullPtr(p) THEN RetNull(eff)
  ELSE
    LET mp == IF maxPreviewBytes = 0 THEN DefaultPreviewBytes ELSE maxPreviewBytes
        effLen == withReads(eff, {<<p.a, OFF_ARRAY_MAX_LENGTH>>})
        length == toInt32(p.cell.hdr)
    IN
    IF ~p.cell.hdrReadable THEN RetNull(effLen)
    ELSE IF lengthIsMalformed(length) THEN RetNull(effLen)
    ELSE IF length = 0 THEN Ret(<<"B","y","t","e","[","0","]">>, effLen)
    ELSE IF length > LargeArrayLength
    THEN Ret(<<"B","y","t","e","[">> \o formatSize(length) \o <<"]">>, effLen)
    ELSE
      LET previewLen == previewLength(length, mp)
          lastTried == Min(previewLen - 1, p.cell.unreadableFrom)
          effPre == withReads(effLen, {<<p.a, OFF_ARRAY_DATA + i>> : i \in 0..lastTried})
          bytes == [i \in 1..previewLen |-> byteAt(p.cell, i - 1)]
          prefixZeros == \A i \in 1..previewLen : bytes[i] = 0
          positions == <<length \div 4, length \div 2, (3 * length) \div 4, length - 1>>
          scan == IF prefixZeros /\ length > previewLen
                  THEN sampleScan(p, length, positions, 1, effPre)
                  ELSE [thrown |-> FALSE, allZeros |-> prefixZeros, eff |-> effPre]
          RECURSIVE joinBytes(_)
          joinBytes(n) == IF n = 0 THEN <<>>
                          ELSE IF n = 1 THEN <<ToString(bytes[1])>>
                          ELSE joinBytes(n - 1) \o <<",", ToString(bytes[n])>>
          suffix == IF length > previewLen
                    THEN <<".",".",".","+">> \o formatSize(length - previewLen)
                    ELSE <<>>
      IN
      IF p.cell.unreadableFrom < previewLen THEN RetNull(effPre)
      ELSE IF scan.thrown THEN RetNull(scan.eff)
      ELSE IF scan.allZeros
      THEN Ret(<<"B","y","t","e","[">> \o formatSize(length) \o <<"]"," ","[","e","m","p","t","y","]">>, scan.eff)
      ELSE Ret(<<"B","y","t","e","[">> \o formatSize(length) \o <<"]"," ","[">> \o joinBytes(previewLen)
                 \o suffix \o <<"]">>, scan.eff)

(***************************************************************************)
(* Strings.                                                                *)
(***************************************************************************)
\* variant that marks a cut with nothing
EllipsisNone == <<>>

Ellipsis == <<".", ".", ".">>

\* utils.truncate
truncate(s, maxLen) == IF Len(s) <= maxLen THEN s ELSE slice0(s, maxLen) \o Ellipsis

\* utils.tryReadString: the content, or null
tryReadString(p, eff) ==
  IF isFalsy(p) \/ isNullPtr(p) THEN RetNull(eff)
  ELSE IF p.cell.strFails THEN RetNull(eff)
  ELSE Ret(p.cell.content, eff)

\* utils.safeString
safeString(p, maxLen, eff) ==
  IF isFalsy(p) \/ isNullPtr(p) THEN Ret(<<"n","u","l","l">>, eff)
  ELSE IF p.cell.strFails THEN Ret(ptrToString(p.a), eff)
  ELSE Ret(<<"\"">> \o truncate(p.cell.content, maxLen) \o <<"\"">>, eff)

\* formatters.formatStringValue
formatStringValue(p, maxLen, eff) ==
  IF isFalsy(p) \/ isNullPtr(p) THEN Ret(<<"n","u","l","l">>, eff)
  ELSE LET raw == tryReadString(p, eff) IN
       IF raw.isNull THEN Ret(ptrToString(p.a), eff)
       ELSE LET truncated == IF Len(raw.text) > maxLen
                             THEN slice0(raw.text, maxLen) \o Ellipsis
                             ELSE raw.text
            IN Ret(<<"\"">> \o truncated \o <<"\"">> \o <<" ","l","e","n","=">> \o <<ToString(Len(raw.text))>>, eff)

\* formatters.formatByRefValue
formatByRefValue(p, typeName, eff) ==
  IF isFalsy(p) \/ isNullPtr(p) THEN Ret(<<"n","u","l","l">>, eff)
  ELSE Ret(typeName \o <<"@">> \o ptrToString(p.a) \o <<" ","(","r","e","f",")">>, eff)

(***************************************************************************)
(* Primitives and enums.                                                   *)
(***************************************************************************)
\* numbers?.int64Format || "hex+dec"; an absent setting is ""
int64Format(numbers) == IF numbers.int64Format = "" THEN "hex+dec" ELSE numbers.int64Format

\* formatters.formatInt64Value
formatInt64Value(p, format) ==
  LET hex == ptrToString(p.a)
      dec == <<ToString(p.a)>>
  IN IF format = "hex" THEN hex
     ELSE IF format = "dec" THEN dec
     ELSE IF hex = dec THEN hex
     ELSE hex \o <<"/">> \o dec

\* formatters.formatPrimitivePtr
formatPrimitivePtr(p, baseName, format) ==
  IF isFalsy(p) THEN <<"n","u","l","l">>
  ELSE IF baseName = <<"B","o","o","l","e","a","n">> THEN (IF p.a # 0 THEN <<"t","r","u","e">> ELSE <<"f","a","l","s","e">>)
  ELSE IF baseName \in {<<"I","n","t","6","4">>, <<"U","I","n","t","6","4">>} THEN formatInt64Value(p, format)
  ELSE IF baseName \in {<<"I","n","t","3","2">>, <<"I","n","t","1","6">>, <<"S","B","y","t","e">>,
                        <<"U","I","n","t","3","2">>, <<"U","I","n","t","1","6">>, <<"B","y","t","e">>, <<"C","h","a","r">>}
  THEN <<ToString(p.a)>>
  ELSE ptrToString(p.a)

\* a Map or cache as a function: the entry for key k
hasKey(f, k) == k \in DOMAIN f
setKey(f, k, v) == [x \in DOMAIN f \cup {k} |-> IF x = k THEN v ELSE f[x]]
EmptyMap == [x \in {} |-> 0]

RECURSIVE literalMap(_, _)
\* the literal-value -> name map getEnumNameMap builds from the first n literals
literalMap(lits, n) ==
  IF n = 0 THEN EmptyMap
  ELSE setKey(literalMap(lits, n - 1), lits[n].value, lits[n].name)

\* formatters.getEnumNameMap: [map, eff]; the map is memoized under the enum's type name
getEnumNameMap(type, eff) ==
  IF hasKey(eff.ec, type.name) THEN [map |-> eff.ec[type.name], eff |-> eff]
  ELSE LET map == IF type.fieldsFail THEN EmptyMap
                  ELSE literalMap(type.literals, Len(type.literals))
       IN [map |-> map, eff |-> [eff EXCEPT !.ec = setKey(@, type.name, map)]]

\* formatters.formatEnumValue: null when the type is no enum
formatEnumValue(type, p, format, eff) ==
  IF ~type.present THEN RetNull(eff)
  ELSE IF type.classFails THEN Throw(eff)          \* type.class
  ELSE IF ~type.hasClass \/ ~type.isEnum THEN RetNull(eff)
  ELSE IF type.metaFails THEN Throw(eff)           \* enumClass.baseType, .namespace, .name
  ELSE
    LET baseName == normalizeTypeName(type.base)
        raw == formatPrimitivePtr(p, IF baseName = <<>> THEN <<"I","n","t","3","2">> ELSE baseName, format)
        fullName == IF type.ns # <<>> THEN type.ns \o <<".">> \o type.name ELSE type.name
        m == getEnumNameMap(type, eff)
    IN IF DOMAIN m.map = {} \/ ~hasKey(m.map, p.a)
       THEN Ret(fullName \o <<"(">> \o raw \o <<")">>, m.eff)
       ELSE Ret(fullName \o <<".">> \o m.map[p.a] \o <<"(">> \o raw \o <<")">>, m.eff)

(***************************************************************************)
(* Collections.  The backquote of a generic arity suffix (Dictionary, List *)
(* and Multimap class names) is written "~".                               *)
(***************************************************************************)
\* utils.safeClassInfo succeeds on the class of cell c
classInfoOk(c) == ~c.classFails

\* the key of the classification cache: `${namespace}.${name}`
cacheKey(c) == c.ns \o <<".">> \o c.name


\* variant that caches "other" whatever the metadata says
isDictionaryClassStoresOther(c, eff) ==
  IF ~classInfoOk(c) THEN [b |-> FALSE, eff |-> eff]
  ELSE IF hasKey(eff.ctc, cacheKey(c))
  THEN [b |-> eff.ctc[cacheKey(c)] = "dictionary", eff |-> eff]
  ELSE LET result == /\ c.ns = <<"S","y","s","t","e","m",".","C","o","l","l","e","c","t","i","o","n","s",".","G","e","n","e","r","i","c">>
                     /\ startsWith(c.name, <<"D","i","c","t","i","o","n","a","r","y","~","2">>)
       IN [b |-> result,
           eff |-> [eff EXCEPT !.ctc = setKey(@, cacheKey(c), "other")]]

\* utils.isDictionaryClass: [b, eff]
isDictionaryClass(c, eff) ==
  IF ~classInfoOk(c) THEN [b |-> FALSE, eff |-> eff]
  ELSE IF hasKey(eff.ctc, cacheKey(c))
  THEN [b |-> eff.ctc[cacheKey(c)] = "dictionary", eff |-> eff]
  ELSE LET result == /\ c.ns = <<"S","y","s","t","e","m",".","C","o","l","l","e","c","t","i","o","n","s",".","G","e","n","e","r","i","c">>
                     /\ startsWith(c.name, <<"D","i","c","t","i","o","n","a","r","y","~","2">>)
       IN [b |-> result,
           eff |-> [eff EXCEPT !.ctc = setKey(@, cacheKey(c),
                                              IF result THEN "dictionary" ELSE "other")]]

\* utils.isListClass: [b, eff]
isListClass(c, eff) ==
  IF ~classInfoOk(c) THEN [b |-> FALSE, eff |-> eff]
  ELSE IF hasKey(eff.ctc, cacheKey(c))
  THEN [b |-> eff.ctc[cacheKey(c)] = "list", eff |-> eff]
  ELSE LET result == /\ c.ns = <<"S","y","s","t","e","m",".","C","o","l","l","e","c","t","i","o","n","s",".","G","e","n","e","r","i","c">>
                     /\ startsWith(c.name, <<"L","i","s","t","~","1">>)
       IN [b |-> result,
           eff |-> [eff EXCEPT !.ctc = setKey(@, cacheKey(c),
                                              IF result THEN "list" ELSE "other")]]

\* utils.isMultimapClass
isMultimapClass(c) == classInfoOk(c) /\ includes(c.name, <<"M","u","l","t","i","m","a","p","~","2">>)

\* utils.readListCount: [isNull, n, eff]
readListCount(p, eff) ==
  IF isFalsy(p) \/ isNullPtr(p) THEN [isNull |-> TRUE, n |-> 0, eff |-> eff]
  ELSE LET eff2 == withReads(eff, {<<p.a, OFF_LIST_SIZE>>}) IN
       IF ~p.cell.countReadable THEN [isNull |-> TRUE, n |-> 0, eff |-> eff2]
       ELSE [isNull |-> FALSE, n |-> p.cell.count, eff |-> eff2]

\* the address of the entries array of a dictionary at address a
entriesAddr(a) == a + 1000

RECURSIVE dictPairs(_, _, _, _, _)
\* the loop of readDictionarySummary from entry i (0-based) on:
\* [thrown, pairs, eff]
dictPairs(p, shown, i, pairs, eff) ==
  IF i >= shown THEN [thrown |-> FALSE, pairs |-> pairs, eff |-> eff]
  ELSE
    LET base == OFF_ENTRIES_ITEMS + i * DICT_ENTRY_SIZE
        effH == withReads(eff, {<<entriesAddr(p.a), base + DICT_ENTRY_HASHCODE>>})
    IN IF i >= Len(p.cell.entries) THEN [thrown |-> TRUE, pairs |-> pairs, eff |-> effH]
       ELSE LET e == p.cell.entries[i + 1] IN
            IF e.hash < 0 THEN dictPairs(p, shown, i + 1, pairs, effH)
            ELSE LET effKV == withReads(effH, {<<entriesAddr(p.a), base + DICT_ENTRY_KEY>>,
                                               <<entriesAddr(p.a), base + DICT_ENTRY_VALUE>>})
                     keyStr == safeString(e.key, 50, effKV)
                     valStr == safeString(e.val, 50, keyStr.eff)
                 IN dictPairs(p, shown, i + 1,
                              Append(pairs, keyStr.text \o <<":">> \o valStr.text), valStr.eff)

RECURSIVE joinWith(_, _, _)
\* Array.prototype.join of the first n parts
joinWith(parts, sep, n) ==
  IF n = 0 THEN <<>>
  ELSE IF n = 1 THEN parts[1]
  ELSE joinWith(parts, sep, n - 1) \o sep \o parts[n]

\* utils.readDictionarySummary
readDictionarySummary(p, maxEntries, eff) ==
  IF isFalsy(p) \/ isNullPtr(p) THEN RetNull(eff)
  ELSE
    LET effH == withReads(eff, {<<p.a, OFF_DICT_ENTRIES_PTR>>, <<p.a, OFF_DICT_COUNT>>})
        count == p.cell.count
        label == <<"D","i","c","t","[">> \o <<ToString(count)>> \o <<"]">>
    IN IF ~p.cell.countReadable THEN RetNull(effH)
       ELSE IF count <= 0 \/ p.cell.entriesNull THEN Ret(label, effH)
       ELSE LET loop == dictPairs(p, Min(count, maxEntries), 0, <<>>, effH) IN
            IF loop.thrown THEN RetNull(loop.eff)
            ELSE IF Len(loop.pairs) > 0
            THEN Ret(label \o <<" ", "{">> \o joinWith(loop.pairs, <<",", " ">>, Len(loop.pairs))
                       \o <<"}">>, loop.eff)
            ELSE Ret(label, loop.eff)

\* no truth value, for a class test that is switched off
NotTested(eff) == [b |-> FALSE, eff |-> eff]

\* readMultimapSummary, one field value v: the list test; cnt is the outcome
\* of readListCount
multimapListLabel(cnt) ==
  IF cnt.isNull THEN RetNull(cnt.eff)
  ELSE Ret(<<"M","u","l","t","i","m","a","p"," ","L","i","s","t","[">> \o <<ToString(cnt.n), "]">>, cnt.eff)

multimapListCount(v, l) ==
  IF l.b THEN multimapListLabel(readListCount(v, l.eff)) ELSE RetNull(l.eff)

multimapList(v, opts, eff) ==
  multimapListCount(v, IF opts.expandLists THEN isListClass(v.cell, eff) ELSE NotTested(eff))

\* readMultimapSummary, one field value v: the dictionary test; summary is
\* the outcome of readDictionarySummary
multimapDict(v, opts, summary) ==
  IF summary.isNull THEN multimapList(v, opts, summary.eff)
  ELSE Ret(<<"M","u","l","t","i","m","a","p"," ">> \o summary.text, summary.eff)

multimapAfterDictTest(v, opts, d) ==
  IF d.b THEN multimapDict(v, opts, readDictionarySummary(v, opts.maxDictEntries, d.eff))
  ELSE multimapList(v, opts, d.eff)

\* the summary the field value v gives, or null
multimapField(v, opts, eff) ==
  multimapAfterDictTest(v, opts,
                        IF opts.expandDictionaries THEN isDictionaryClass(v.cell, eff)
                        ELSE NotTested(eff))

RECURSIVE multimapScan(_, _, _, _)
RECURSIVE multimapNext(_, _, _, _)
\* the loop of readMultimapSummary over the fields from index k on
multimapScan(p, opts, k, eff) ==
  IF k > Len(p.cell.fields) THEN RetNull(eff)
  ELSE IF \/ p.cell.fields[k].isStatic
          \/ p.cell.fields[k].valueFails
          \/ p.cell.fields[k].value.k # "ptr"
          \/ p.cell.fields[k].value.cell.ctorFails
          \/ p.cell.fields[k].value.cell.classFails
  THEN multimapNext(p, opts, k, RetNull(eff))
  ELSE multimapNext(p, opts, k, multimapField(p.cell.fields[k].value, opts, eff))

\* r is what field k gave: return it, or go on with the next field
multimapNext(p, opts, k, r) ==
  IF r.isNull THEN multimapScan(p, opts, k + 1, r.eff) ELSE r

\* utils.readMultimapSummary
readMultimapSummary(p, opts, eff) ==
  IF isFalsy(p) \/ isNullPtr(p) THEN RetNull(eff)
  ELSE IF p.cell.ctorFails \/ p.cell.classFails \/ p.cell.fieldsFail THEN RetNull(eff)
  ELSE multimapScan(p, opts, 1, eff)

\* utils.tryObjectToString: invokes ToString() of the target when it has one
tryObjectToString(p, maxLen, eff) ==
  IF isFalsy(p) \/ isNullPtr(p) THEN RetNull(eff)
  ELSE IF p.cell.ctorFails \/ p.cell.classFails THEN RetNull(eff)
  ELSE IF ~p.cell.toStr.has THEN RetNull(eff)
  ELSE LET effI == [eff EXCEPT !.invoked = @ + 1] IN
       IF p.cell.toStr.fails \/ p.cell.toStr.null THEN RetNull(effI)
       ELSE Ret(IF maxLen # 0 THEN truncate(p.cell.toStr.content, maxLen)
                ELSE p.cell.toStr.content, effI)

(***************************************************************************)
(* Object previews.                                                        *)
(***************************************************************************)
\* formatters.getPreviewOptions (the options of one config object)
getPreviewOptions(config) ==
  [tryToString |-> config.formatting.objects.tryToString,
   previewObjects |-> config.formatting.objects.showFields,
   maxObjectFields |-> config.formatting.objects.maxFields,
   maxStringLength |-> config.formatting.strings.maxLength,
   expandDictionaries |-> config.formatting.collections.dictionaries.enabled,
   maxDictEntries |-> config.formatting.collections.dictionaries.maxEntries,
   expandLists |-> config.formatting.collections.lists.enabled,
   expandMultimap |-> config.formatting.collections.multimaps.enabled,
   omitFields |-> config.formatting.objects.omitFields,
   omitFieldRegex |-> config.formatting.objects.omitFieldPatterns,
   numbers |-> config.formatting.numbers]

\* formatters.isBufferFieldName
isBufferFieldName(fieldName) ==
  /\ Len(fieldName) > 0
  /\ LET lower == toLowerCase(fieldName) IN
     \/ lower \in {<<"b","u","f","f","e","r">>, <<"_","b","u","f","f","e","r">>, <<"d","a","t","a">>, <<"_","d","a","t","a">>}
     \/ endsWith(lower, <<"b","u","f","f","e","r">>)
     \/ endsWith(lower, <<"b","y","t","e","s">>)

\* re.test(fieldName) for the patterns a configuration carries; the one
\* pattern of the default configuration is ^<.*>k__BackingField$
regexTest(pattern, fieldName) ==
  /\ pattern = "^<.*>k__BackingField$"
  /\ startsWith(fieldName, <<"<">>)
  /\ endsWith(fieldName, <<">","k","_","_","B","a","c","k","i","n","g","F","i","e","l","d">>)
  /\ Len(fieldName) >= Len(<<"<",">","k","_","_","B","a","c","k","i","n","g","F","i","e","l","d">>)

\* formatters.shouldIncludeField, for a class without an entry in
\* fieldAllowlistByType and fieldDenylistByType
shouldIncludeField(fieldName, opts) ==
  /\ Len(fieldName) > 0
  /\ fieldName \notin opts.omitFields
  /\ ~\E pattern \in opts.omitFieldRegex : regexTest(pattern, fieldName)

\* formatters.safeValueToString
safeValueToString(v, maxLen) ==
  IF v.k = "undef" THEN <<"n","u","l","l">>
  ELSE IF v.k = "ptr" THEN (IF isNullPtr(v) THEN <<"n","u","l","l">> ELSE ptrToString(v.a))
  ELSE <<ToString(v.a)>>

\* formatters.formatPrimitiveValue
formatPrimitiveValue(v, baseName, format) ==
  IF v.k = "undef" THEN <<"n","u","l","l">>
  ELSE IF v.k = "number" THEN <<ToString(v.a)>>
  ELSE IF baseName \in {<<"I","n","t","6","4">>, <<"U","I","n","t","6","4">>} THEN ptrToString(v.a)
  ELSE formatPrimitivePtr(v, baseName, format)

\* the guarded length read of an array-typed value: [ok, len, eff]
readArrayLength(p, limit, eff) ==
  LET eff2 == withReads(eff, {<<p.a, OFF_ARRAY_MAX_LENGTH>>})
      len == toInt32(p.cell.hdr)
  IN IF ~p.cell.hdrReadable THEN [ok |-> FALSE, len |-> 0, eff |-> eff2]
     ELSE [ok |-> len >= 0 /\ len < limit, len |-> len, eff |-> eff2]

\* `${typeName.replace("[]", "")}[${len}]`
arrayLabel(typeName, len) == replaceBrackets(typeName) \o <<"[", ToString(len), "]">>

\* an array label from the outcome r of the guarded length read
arrayLabelOr(typeName, r) ==
  IF r.ok THEN Ret(arrayLabel(typeName, r.len), r.eff) ELSE Ret(typeName, r.eff)

\* summarizeFieldValue, the list branch; cnt is the outcome of readListCount
summarizeListCount(cnt) ==
  IF cnt.isNull THEN Ret(<<"L","i","s","t">>, cnt.eff)
  ELSE Ret(<<"L","i","s","t","[">> \o <<ToString(cnt.n), "]">>, cnt.eff)

summarizeList(v, l) ==
  IF l.b THEN summarizeListCount(readListCount(v, l.eff))
  ELSE Ret(safeValueToString(v, 100), l.eff)

\* summarizeFieldValue, the collection tests; d is the outcome of the
\* dictionary test
summarizeCollections(v, opts, d) ==
  IF d.b
  THEN orElse(readDictionarySummary(v, opts.maxDictEntries, d.eff), <<"D","i","c","t">>)
  ELSE IF opts.expandMultimap /\ isMultimapClass(v.cell)
  THEN orElse(readMultimapSummary(v, opts, d.eff), <<"M","u","l","t","i","m","a","p">>)
  ELSE summarizeList(v, IF opts.expandLists THEN isListClass(v.cell, d.eff)
                        ELSE NotTested(d.eff))

\* formatters.summarizeFieldValue
summarizeFieldValue(v, typeName, opts, eff) ==
  IF v.k = "undef" THEN Ret(<<"n","u","l","l">>, eff)
  ELSE IF v.k = "ptr" /\ isNullPtr(v) THEN Ret(<<"n","u","l","l">>, eff)
  ELSE IF isByteArrayType(typeName)
  THEN IF v.k = "ptr"
       THEN orElse(readByteArraySummary(v, DefaultPreviewBytes, eff), <<"B","y","t","e","[","]">>)
       ELSE Ret(<<"B","y","t","e","[","?","]">>, eff)
  ELSE IF isArrayType(typeName)
  THEN IF v.k = "ptr" THEN arrayLabelOr(typeName, readArrayLength(v, 1000000, eff))
       ELSE Ret(typeName, eff)
  ELSE IF isStringType(typeName)
  THEN IF v.k = "ptr" THEN formatStringValue(v, opts.maxStringLength, eff)
       ELSE IF v.a = 0 THEN Ret(<<"n","u","l","l">>, eff)   \* !ptr
       ELSE Throw(eff)                            \* a number has no isNull()
  ELSE IF isPrimitiveName(normalizeTypeName(typeName))
  THEN Ret(formatPrimitiveValue(v, normalizeTypeName(typeName), int64Format(opts.numbers)), eff)
  ELSE IF v.k # "ptr" \/ v.cell.ctorFails \/ v.cell.classFails
  THEN Ret(safeValueToString(v, 100), eff)
  ELSE summarizeCollections(v, opts,
                            IF opts.expandDictionaries THEN isDictionaryClass(v.cell, eff)
                            ELSE NotTested(eff))

\* what one field adds to the preview: [push, text, eff]
NoItem(eff) == [push |-> FALSE, text |-> <<>>, eff |-> eff]
Item(text, eff) == [push |-> TRUE, text |-> text, eff |-> eff]

\* a field summarized by summarizeFieldValue; the field is left out when
\* that throws
summaryItem(s) == IF s.thrown THEN NoItem(s.eff) ELSE Item(s.text, s.eff)

\* an array field with a non-null value; r is the outcome of the guarded
\* length read
arrayItem(f, r) ==
  IF r.ok THEN Item(arrayLabel(f.typeName, r.len), r.eff) ELSE Item(f.typeName, r.eff)

\* the body of the field loop of previewObject for an included field f
fieldItem(f, opts, eff) ==
  IF isByteArrayType(f.typeName) /\ isBufferFieldName(f.name)
  THEN Item(<<"[","b","u","f","f","e","r","]">>, eff)
  ELSE IF isArrayType(f.typeName)
  THEN IF f.valueFails THEN Item(f.typeName, eff)
       ELSE IF f.value.k = "ptr" /\ ~isNullPtr(f.value)
       THEN arrayItem(f, readArrayLength(f.value, 10000000, eff))
       ELSE Item(<<"n","u","l","l">>, eff)
  ELSE IF f.valueFails THEN NoItem(eff)
  ELSE summaryItem(summarizeFieldValue(f.value, f.typeName, opts, eff))

RECURSIVE fieldScan(_, _, _, _, _)
RECURSIVE fieldNext(_, _, _, _, _)
\* the field loop of previewObject from field k on: [fields, eff]
fieldScan(p, opts, k, fields, eff) ==
  IF k > Len(p.cell.fields) THEN [fields |-> fields, eff |-> eff]
  ELSE IF p.cell.fields[k].metaFails
  THEN [fields |-> fields, eff |-> eff]                  \* caught by the outer try
  ELSE IF p.cell.fields[k].isStatic THEN fieldNext(p, opts, k, fields, NoItem(eff))
  ELSE IF Len(fields) >= opts.maxObjectFields
  THEN [fields |-> fields, eff |-> eff]                  \* break
  ELSE IF ~shouldIncludeField(p.cell.fields[k].name, opts)
  THEN fieldNext(p, opts, k, fields, NoItem(eff))
  ELSE fieldNext(p, opts, k, fields, fieldItem(p.cell.fields[k], opts, eff))

\* it is what field k adds: go on with the next field
fieldNext(p, opts, k, fields, it) ==
  fieldScan(p, opts, k + 1,
            IF it.push THEN Append(fields, p.cell.fields[k].name \o <<"=">> \o it.text)
            ELSE fields,
            it.eff)

\* safeObjectClassInfo(obj).fullName
classFullName(c) == IF c.ns # <<>> THEN c.ns \o <<".">> \o c.name ELSE c.name

\* `${classInfo.fullName}@${ptr}`
objectLabel(p) == classFullName(p.cell) \o <<"@">> \o ptrToString(p.a)

\* `${classInfo.name}@${ptr}`
shortLabel(p) == p.cell.name \o <<"@">> \o ptrToString(p.a)

\* previewObject from the field preview on; ts is the outcome of ToString()
\* and scan the outcome of the field loop
previewFields(p, ts, scan) ==
  LET quoted == IF ts.isNull \/ ts.text = <<>> THEN <<>>
                ELSE <<" ", "\"">> \o ts.text \o <<"\"">>
      n == Len(scan.fields)
      preview == IF n > 0 THEN <<" ", "{">> \o joinWith(scan.fields, <<",", " ">>, n) \o <<"}">>
                 ELSE <<>>
  IN Ret(objectLabel(p) \o quoted \o preview, scan.eff)

\* previewObject from the ToString() attempt on
previewPlain(p, opts, ts) ==
  previewFields(p, ts,
                IF ~opts.previewObjects \/ p.cell.fieldsFail
                THEN [fields |-> <<>>, eff |-> ts.eff]
                ELSE fieldScan(p, opts, 1, <<>>, ts.eff))

\* the list branch of previewObject; cnt is the outcome of readListCount
previewList(p, cnt) ==
  IF cnt.isNull THEN Ret(shortLabel(p), cnt.eff)
  ELSE Ret(<<"L","i","s","t","[">> \o <<ToString(cnt.n), "]">>, cnt.eff)

\* previewObject after the dictionary and multimap tests; l is the outcome
\* of the list test
previewAfterMaps(p, opts, l) ==
  IF l.b THEN previewList(p, readListCount(p, l.eff))
  ELSE previewPlain(p, opts,
                    IF opts.tryToString THEN tryObjectToString(p, opts.maxStringLength, l.eff)
                    ELSE RetNull(l.eff))

\* previewObject from the collection tests on; d is the outcome of the
\* dictionary test
previewCollections(p, opts, d) ==
  IF d.b
  THEN orElse(readDictionarySummary(p, opts.maxDictEntries, d.eff), shortLabel(p))
  ELSE IF opts.expandMultimap /\ isMultimapClass(p.cell)
  THEN orElse(readMultimapSummary(p, opts, d.eff), shortLabel(p))
  ELSE previewAfterMaps(p, opts,
                        IF opts.expandLists THEN isListClass(p.cell, d.eff)
                        ELSE NotTested(d.eff))

\* the string branch of previewObject
previewString(p, s) == Ret(objectLabel(p) \o <<" ">> \o s.text, s.eff)

\* formatters.previewObject
previewObject(p, opts, eff) ==
  IF isFalsy(p) \/ isNullPtr(p) THEN Ret(<<"n","u","l","l">>, eff)
  ELSE IF p.cell.ctorFails THEN Ret(ptrToString(p.a), eff)
  ELSE IF p.cell.classFails THEN Ret(<<"<","i","n","a","c","c","e","s","s","i","b","l","e",">","@">> \o ptrToString(p.a), eff)
  ELSE IF isStringType(classFullName(p.cell))
  THEN previewString(p, formatStringValue(p, opts.maxStringLength, eff))
  ELSE previewCollections(p, opts,
                          IF opts.expandDictionaries THEN isDictionaryClass(p.cell, eff)
                          ELSE NotTested(eff))

(***************************************************************************)
(* formatArg and formatReturn.                                             *)
(***************************************************************************)
\* the dispatch formatArg and formatReturn share after their first checks;
\* enumVal is the outcome of formatEnumValue
formatByType(p, typeName, maxStrLen, config, enumVal) ==
  IF enumVal.thrown THEN enumVal
  ELSE IF ~enumVal.isNull THEN enumVal
  ELSE IF isByteArrayType(typeName)
  THEN orElse(readByteArraySummary(p, 20, enumVal.eff), <<"B","y","t","e","[","]">>)
  ELSE IF isArrayType(typeName)
  THEN arrayLabelOr(typeName, readArrayLength(p, 10000000, enumVal.eff))
  ELSE IF isStringType(typeName)
  THEN IF isNullPtr(p) THEN Ret(<<"n","u","l","l">>, enumVal.eff)
       ELSE formatStringValue(p, maxStrLen, enumVal.eff)
  ELSE IF isPrimitiveName(normalizeTypeName(typeName))
  THEN Ret(formatPrimitivePtr(p, normalizeTypeName(typeName),
                              int64Format(config.formatting.numbers)), enumVal.eff)
  ELSE IF isNullPtr(p) THEN Ret(<<"n","u","l","l">>, enumVal.eff)
  ELSE previewObject(p, getPreviewOptions(config), enumVal.eff)

\* formatters.formatArg
formatArg(p, typeName, maxStrLen, config, type, eff) ==
  IF isFalsy(p) THEN Ret(<<"n","u","l","l">>, eff)
  ELSE IF isByRefType(typeName)
  THEN IF isNullPtr(p) THEN Ret(<<"n","u","l","l">>, eff) ELSE formatByRefValue(p, typeName, eff)
  ELSE formatByType(p, typeName, maxStrLen, config,
                    formatEnumValue(type, p, int64Format(config.formatting.numbers), eff))

\* formatters.formatReturn
formatReturn(p, typeName, maxStrLen, config, type, eff) ==
  IF typeName = <<"V","o","i","d">> THEN Ret(<<"v","o","i","d">>, eff)
  ELSE IF isFalsy(p) THEN Ret(<<"n","u","l","l">>, eff)
  ELSE formatByType(p, typeName, maxStrLen, config,
                    formatEnumValue(type, p, int64Format(config.formatting.numbers), eff))

(***************************************************************************)
(* Part III, the formatter calls.  One call input is drawn when the script *)
(* is loaded; the calls that follow share the two module-level caches.     *)
(***************************************************************************)
ArrayAddr == 4096
StringAddr == 8192
ObjectAddr == 12288
FieldAddr == 16384

ArrayCell(hdr, nz, unreadableFrom) ==
  [BaseCell EXCEPT !.kind = "array", !.hdrReadable = TRUE, !.hdr = hdr, !.nz = nz,
                   !.unreadableFrom = unreadableFrom]

StringCell(content) ==
  [BaseCell EXCEPT !.kind = "string", !.strFails = FALSE, !.content = content,
                   !.ctorFails = FALSE, !.classFails = FALSE,
                   !.ns = <<"S","y","s","t","e","m">>, !.name = <<"S","t","r","i","n","g">>, !.fieldsFail = FALSE]

ObjectCell(ns, name, fields, toStr) ==
  [BaseCell EXCEPT !.kind = "object", !.ctorFails = FALSE, !.classFails = FALSE,
                   !.ns = ns, !.name = name, !.fieldsFail = FALSE, !.fields = fields,
                   !.toStr = toStr]

CollectionCell(name, count, entries) ==
  [BaseCell EXCEPT !.kind = "collection", !.ctorFails = FALSE, !.classFails = FALSE,
                   !.ns = <<"S","y","s","t","e","m",".","C","o","l","l","e","c","t","i","o","n","s",".","G","e","n","e","r","i","c">>, !.name = name,
                   !.fieldsFail = FALSE, !.countReadable = TRUE, !.count = count,
                   !.entriesNull = FALSE, !.entriesReadable = TRUE, !.entries = entries]

Num(n) == [k |-> "number", a |-> n, cell |-> BaseCell]
Field(name, typeName, value) ==
  [name |-> name, typeName |-> typeName, isStatic |-> FALSE, metaFails |-> FALSE,
   valueFails |-> FALSE, value |-> value]

NoToString == [has |-> FALSE, fails |-> FALSE, null |-> TRUE, content |-> <<>>]
ToStringOf(content) == [has |-> TRUE, fails |-> FALSE, null |-> FALSE, content |-> content]
ThrowingToString == [has |-> TRUE, fails |-> TRUE, null |-> TRUE, content |-> <<>>]

\* header words: 0, 3, 25, 1000, 1 MiB, 1 MiB + 1, -1 and the smallest int32
Headers ==
  {Word(0, 0), Word(0, 3), Word(0, 25), Word(0, 1000), Word(16, 0), Word(16, 1),
   Word(65535, 65535), Word(32768, 0)}

ByteArrays ==
  {Ptr(ArrayAddr, ArrayCell(hdr, nz, uf)) :
     hdr \in Headers, nz \in {{}, {0}, {750}}, uf \in {2, Readable}}

FooFields ==
  <<Field(<<"i","d">>, <<"S","y","s","t","e","m",".","I","n","t","3","2">>, Num(5)),
    Field(<<"<","N","a","m","e",">","k","_","_","B","a","c","k","i","n","g","F","i","e","l","d">>, <<"S","y","s","t","e","m",".","S","t","r","i","n","g">>, Ptr(FieldAddr, StringCell(<<"a","b">>))),
    Field(<<"p","a","y","l","o","a","d">>, <<"S","y","s","t","e","m",".","B","y","t","e","[","]">>,
          Ptr(FieldAddr, ArrayCell(Word(65535, 65535), {0}, Readable))),
    Field(<<"b","u","f","f","e","r">>, <<"S","y","s","t","e","m",".","B","y","t","e","[","]">>,
          Ptr(FieldAddr, ArrayCell(Word(0, 3), {0}, Readable))),
    [Field(<<"b","r","o","k","e","n">>, <<"G","a","m","e",".","F","o","o">>, NullPtr) EXCEPT !.valueFails = TRUE],
    Field(<<"t","i","t","l","e">>, <<"S","y","s","t","e","m",".","S","t","r","i","n","g">>, Ptr(FieldAddr, StringCell(<<"a","b","c","d","e","f">>)))>>

Objects ==
  {Ptr(ObjectAddr, ObjectCell(<<"G","a","m","e">>, <<"F","o","o">>, FooFields, ts)) :
     ts \in {NoToString, ToStringOf(<<"a","b","c","d","e","f">>), ThrowingToString}}
  \cup {Ptr(ObjectAddr, [ObjectCell(<<"G","a","m","e">>, <<"F","o","o">>, FooFields, NoToString)
                           EXCEPT !.fieldsFail = TRUE]),
        Ptr(ObjectAddr, [BaseCell EXCEPT !.kind = "object", !.ctorFails = FALSE]),
        Ptr(ObjectAddr, BaseCell),
        Ptr(ObjectAddr, CollectionCell(<<"L","i","s","t","~","1">>, 4, <<>>)),
        Ptr(ObjectAddr, ObjectCell(<<"G","a","m","e">>, <<"M","u","l","t","i","m","a","p","~","2">>,
              <<Field(<<"m","a","p">>, <<"S","y","s","t","e","m",".","O","b","j","e","c","t">>,
                      Ptr(FieldAddr, CollectionCell(<<"D","i","c","t","i","o","n","a","r","y","~","2">>, 0, <<>>)))>>,
              NoToString)),
        Ptr(ObjectAddr, CollectionCell(<<"D","i","c","t","i","o","n","a","r","y","~","2">>, 2,
              <<[hash |-> 1, key |-> Ptr(FieldAddr, StringCell(<<"k">>)), val |-> NullPtr],
                [hash |-> -1, key |-> NullPtr, val |-> NullPtr]>>)),
        Ptr(ObjectAddr, CollectionCell(<<"D","i","c","t","i","o","n","a","r","y","~","2">>, 5,
              <<[hash |-> 1, key |-> Ptr(FieldAddr, StringCell(<<"k">>)), val |-> NullPtr]>>)),
        Ptr(ObjectAddr, [CollectionCell(<<"D","i","c","t","i","o","n","a","r","y","~","2">>, 0, <<>>)
                           EXCEPT !.countReadable = FALSE]),
        \* headers whose count field holds garbage
        Ptr(ObjectAddr, CollectionCell(<<"L","i","s","t","~","1">>, 0 - 1, <<>>)),
        Ptr(ObjectAddr, CollectionCell(<<"D","i","c","t","i","o","n","a","r","y","~","2">>, 0 - 1, <<>>)),
        Ptr(ObjectAddr, CollectionCell(<<"D","i","c","t","i","o","n","a","r","y","~","2">>, MAX_ARRAY_LENGTH + 1,
              <<[hash |-> 1, key |-> Ptr(FieldAddr, StringCell(<<"k">>)), val |-> NullPtr]>>))}

Strings ==
  {Ptr(StringAddr, StringCell(<<>>)), Ptr(StringAddr, StringCell(<<"a","b">>)),
   Ptr(StringAddr, StringCell(<<"a","b","c","d","e","f">>)), Ptr(StringAddr, BaseCell)}

\* a primitive or enum argument arrives as a pointer-sized value
Scalars == {Ptr(1, BaseCell), Ptr(5, BaseCell)}

TypeNames ==
  {<<"S","y","s","t","e","m",".","B","y","t","e","[","]">>, <<"S","y","s","t","e","m",".","I","n","t","3","2","[","]">>, <<"S","y","s","t","e","m",".","S","t","r","i","n","g">>, <<"S","y","s","t","e","m",".","I","n","t","3","2">>,
   <<"S","y","s","t","e","m",".","I","n","t","6","4">>, <<"S","y","s","t","e","m",".","B","o","o","l","e","a","n">>, <<"S","y","s","t","e","m",".","S","t","r","i","n","g","&">>, <<"G","a","m","e",".","F","o","o">>,
   <<"G","a","m","e",".","M","o","d","e">>, <<"V","o","i","d">>}

\* the Il2Cpp.Type handed along with the type name
NoType ==
  [present |-> FALSE, classFails |-> FALSE, hasClass |-> FALSE, isEnum |-> FALSE,
   metaFails |-> FALSE, ns |-> <<>>, name |-> <<>>, base |-> <<>>, literals |-> <<>>,
   fieldsFail |-> FALSE]
PlainType == [NoType EXCEPT !.present = TRUE, !.hasClass = TRUE]
UnresolvableType == [NoType EXCEPT !.present = TRUE, !.classFails = TRUE]
ModeType ==
  [NoType EXCEPT !.present = TRUE, !.hasClass = TRUE, !.isEnum = TRUE,
                 !.ns = <<"G","a","m","e">>, !.name = <<"M","o","d","e">>, !.base = <<"S","y","s","t","e","m",".","I","n","t","3","2">>,
                 !.literals = <<[value |-> 0, name |-> <<"O","f","f">>],
                                [value |-> 1, name |-> <<"O","n">>]>>]
Types ==
  {NoType, PlainType, UnresolvableType, ModeType,
   [ModeType EXCEPT !.metaFails = TRUE], [ModeType EXCEPT !.fieldsFail = TRUE]}

\* a configuration object (config.js CONFIG), the settings the formatters read
Config(tryToString, showFields, collections, fmt) ==
  [formatting |->
     [strings |-> [maxLength |-> MaxStringLength],
      objects |-> [tryToString |-> tryToString, showFields |-> showFields,
                   maxFields |-> MaxObjectFields, omitFields |-> {},
                   omitFieldPatterns |-> {"^<.*>k__BackingField$"}],
      collections |-> [dictionaries |-> [enabled |-> collections, maxEntries |-> MaxDictEntries],
                       lists |-> [enabled |-> collections],
                       multimaps |-> [enabled |-> collections]],
      numbers |-> [int64Format |-> fmt]]]

Configs ==
  {Config(TRUE, TRUE, TRUE, ""), Config(FALSE, TRUE, FALSE, "dec"),
   Config(TRUE, FALSE, TRUE, "hex")}

\* the maximum string length that the sample configuration gives as "no
\* truncation"
Unlimited == 0 - 1

\* the sample configuration: strings.maxLength -1, ToString() on, fields off
UnlimitedConfig ==
  [Config(TRUE, FALSE, TRUE, "") EXCEPT !.formatting.strings.maxLength = Unlimited]

Input(p, typeName, type, config, maxStrLen) ==
  [p |-> p, typeName |-> typeName, type |-> type, config |-> config, maxStrLen |-> maxStrLen]

Inputs ==
  {Input(p, <<"S","y","s","t","e","m",".","B","y","t","e","[","]">>, type, config, MaxStringLength) :
     p \in ByteArrays, type \in {NoType, PlainType}, config \in Configs}
  \cup
  {Input(p, typeName, type, config, maxStrLen) :
     p \in {Undef, NullPtr, Ptr(ArrayAddr, ArrayCell(Word(0, 3), {0}, Readable)),
            Ptr(ArrayAddr, BaseCell)}
           \cup Objects \cup Strings \cup Scalars,
     typeName \in TypeNames, type \in Types, config \in Configs,
     maxStrLen \in {1, MaxStringLength}}
  \cup
  {Input(Num(n), typeName, NoType, config, MaxStringLength) :
     n \in {0, 5}, typeName \in {<<"S","y","s","t","e","m",".","I","n","t","3","2">>, <<"S","y","s","t","e","m",".","B","o","o","l","e","a","n">>, <<"G","a","m","e",".","M","o","d","e">>},
     config \in Configs}
  \cup
  \* the hooks pass config.formatting.strings.maxLength as maxStrLen
  {Input(p, typeName, NoType, UnlimitedConfig, Unlimited) :
     p \in Strings \cup {Ptr(ObjectAddr, ObjectCell(<<"G","a","m","e">>, <<"F","o","o">>, FooFields, ToStringOf(<<"a","b","c","d","e","f">>)))},
     typeName \in {<<"S","y","s","t","e","m",".","S","t","r","i","n","g">>, <<"G","a","m","e",".","F","o","o">>}}

NoResult == [thrown |-> FALSE, isNull |-> TRUE, text |-> <<>>, eff |-> NewEff(EmptyMap, EmptyMap)]
NoCall == [fn |-> "none", input |-> Input(Undef, <<>>, NoType, Config(TRUE, TRUE, TRUE, ""), 1),
           res |-> NoResult]

(***************************************************************************)
(* Part IV.  Plugins and the listeners they attach.                        *)
(*                                                                         *)
(* Interceptor.attach returns a listener; detach() on it is the only way   *)
(* to take the callbacks off the target again.  The combat-anim plugin     *)
(* pushes every listener on state.hooks; core.hookMethods, which the       *)
(* logger plugin installs with, drops the value attach returns.            *)
(***************************************************************************)
LifeIds == 1..MaxListeners
Plugins == {"logger", "skipAnim", "combatAnim"}

NoListener == [owner |-> "none", state |-> "none", brittle |-> FALSE]

\* a listener of plugin pl right after Interceptor.attach; brittle: its
\* detach() will throw
Listener(pl, brittle) == [owner |-> pl, state |-> "active", brittle |-> brittle]

FreeIds == {h \in LifeIds : life[h].state = "none"}

\* CombatAnimPlugin start: hookSkipTargets / hookTraceTargets attach every
\* resolved target in one go and push each listener on state.hooks
CombatAnimStart ==
  /\ plugState["combatAnim"] = "idle"
  /\ \E S \in SUBSET FreeIds : \E B \in SUBSET S :
       /\ life' = [h \in LifeIds |-> IF h \in S THEN Listener("combatAnim", h \in B)
                                      ELSE life[h]]
       /\ retained' = [retained EXCEPT !["combatAnim"] = @ \cup S]
  /\ plugState' = [plugState EXCEPT !["combatAnim"] = "started"]
  /\ UNCHANGED <<installVars, callVars, decodeVars, resolveVars, extVars>>

\* LoggerPlugin.start: arms the installation intervals, attaches nothing yet
LoggerPluginStart ==
  /\ plugState["logger"] = "idle"
  /\ plugState' = [plugState EXCEPT !["logger"] = "started"]
  /\ UNCHANGED <<installVars, callVars, decodeVars, resolveVars, life, retained, extVars>>

\* SkipAnimPlugin.start: hookManager.installHook per configured method;
\* installHook returns a boolean, the listener is not kept
SkipAnimStart ==
  /\ plugState["skipAnim"] = "idle"
  /\ \E S \in SUBSET FreeIds : \E B \in SUBSET S :
       life' = [h \in LifeIds |-> IF h \in S THEN Listener("skipAnim", h \in B)
                                   ELSE life[h]]
  /\ plugState' = [plugState EXCEPT !["skipAnim"] = "started"]
  /\ UNCHANGED <<installVars, callVars, decodeVars, resolveVars, retained, extVars>>

\* one firing of a hookMethods interval attaches a method; the listener
\* attach returns is not stored.  stop() clears no interval, so the firings
\* go on after it.
LoggerAttach(h) ==
  /\ plugState["logger"] # "idle"
  /\ h \in FreeIds
  /\ \E brittle \in BOOLEAN : life' = [life EXCEPT ![h] = Listener("logger", brittle)]
  /\ UNCHANGED <<installVars, callVars, decodeVars, resolveVars, plugState, retained, extVars>>

\* h.detach() inside try { } catch (_) { }
detached(l) == IF l.brittle THEN l ELSE [l EXCEPT !.state = "detached"]

\* plugin.stop(): what it does to the listeners and to the handles it holds
\*   CombatAnimPlugin.stop  detaches every entry of state.hooks, then
\*                          state.hooks = []
\*   LoggerPlugin.stop and SkipAnimPlugin.stop print a line
pluginStopLife(pl, lf) ==
  IF pl = "combatAnim"
  THEN [h \in LifeIds |-> IF h \in retained[pl] THEN detached(lf[h]) ELSE lf[h]]
  ELSE lf

pluginStopRetained(pl, rt) ==
  IF pl = "combatAnim" THEN [rt EXCEPT ![pl] = {}] ELSE rt

PluginStop(pl) ==
  /\ plugState[pl] = "started"
  /\ life' = pluginStopLife(pl, life)
  /\ retained' = pluginStopRetained(pl, retained)
  /\ plugState' = [plugState EXCEPT ![pl] = "stopped"]
  /\ UNCHANGED <<installVars, callVars, decodeVars, resolveVars, extVars>>

\* PluginManager.stopAll: stop() of every active plugin, each in a try
StopAll ==
  /\ \E pl \in Plugins : plugState[pl] = "started"
  /\ life' = IF plugState["combatAnim"] = "started"
             THEN pluginStopLife("combatAnim", life)
             ELSE life     \* the other plugins' stop() changes no listener
  /\ retained' = IF plugState["combatAnim"] = "started"
                 THEN pluginStopRetained("combatAnim", retained) ELSE retained
  /\ plugState' = [pl \in Plugins |-> IF plugState[pl] = "started" THEN "stopped"
                                       ELSE plugState[pl]]
  /\ UNCHANGED <<installVars, callVars, decodeVars, resolveVars, extVars>>

NextLife ==
  \/ CombatAnimStart
  \/ LoggerPluginStart
  \/ SkipAnimStart
  \/ \E h \in LifeIds : LoggerAttach(h)
  \/ \E pl \in Plugins : PluginStop(pl)
  \/ StopAll

(***************************************************************************)
(* Part V.  Target resolution: normalizeTarget, classMatches, findClass.   *)
(*                                                                         *)
(* The host's domain is a list of assemblies, each a list of classes, in   *)
(* the order Il2Cpp.domain.assemblies and image.classes enumerate them.    *)
(* Reading image.classes of an assembly may throw, and so may reading the  *)
(* name of one class (stripped or protected metadata).                     *)
(*                                                                         *)
(* A target field that is absent and one that holds the empty string are   *)
(* both falsy and take the same branches everywhere below; both are the    *)
(* empty text here.                                                        *)
(***************************************************************************)
Class(ns, name) == [namespace |-> ns, name |-> name, nameFails |-> FALSE]

\* a class whose name cannot be read
BrokenClass == [namespace |-> <<>>, name |-> <<>>, nameFails |-> TRUE]

Assembly(name, classes) == [name |-> name, classes |-> classes, classesFail |-> FALSE]

\* an assembly whose image.classes getter throws
ClosedAssembly(name, classes) == [name |-> name, classes |-> classes, classesFail |-> TRUE]

\* String.prototype.lastIndexOf (0-based, -1 when absent)
lastIndexOf(s, c) ==
  IF \E p \in 1..Len(s) : s[p] = c
  THEN (CHOOSE p \in 1..Len(s) : s[p] = c /\ \A q \in (p + 1)..Len(s) : s[q] # c) - 1
  ELSE -1

\* String.prototype.slice(from) with from >= 0
sliceFrom(s, from) == SubSeq(s, from + 1, Len(s))

\* normalizeTarget(cfg)
normalizeTarget(cfg) ==
  LET lastDot == lastIndexOf(cfg.fullName, ".")
      split == cfg.fullName # <<>> /\ (cfg.className = <<>> \/ cfg.namespace = <<>>)
      c1 == IF ~split THEN cfg
            ELSE IF lastDot # -1
                 THEN [cfg EXCEPT !.namespace = slice0(cfg.fullName, lastDot),
                                  !.className = sliceFrom(cfg.fullName, lastDot + 1)]
                 ELSE [cfg EXCEPT !.className = cfg.fullName]
  IN IF c1.assembly # <<>> /\ endsWith(toLowerCase(c1.assembly), <<".","d","l","l">>)
     THEN [c1 EXCEPT !.assembly = slice0(c1.assembly, -4)]
     ELSE c1

\* classMatches(klass, target); klass.name has been read
classMatches(klass, target) ==
  LET nameMatch == IF target.allowPartial
                   THEN includes(klass.name, target.className)   \* className || ""
                   ELSE klass.name = target.className
  IN /\ nameMatch
     /\ target.namespace # <<>> =>
          IF target.allowPartial THEN includes(klass.namespace, target.namespace)
          ELSE klass.namespace = target.namespace

Match(assembly, klass) == [kind |-> "match", assembly |-> assembly.name, klass |-> klass]
Null == [kind |-> "null", assembly |-> <<>>, klass |-> BrokenClass]
Undefined == [kind |-> "undefined", assembly |-> <<>>, klass |-> BrokenClass]

RECURSIVE walkClasses(_, _, _, _)
\* assembly.image.classes.forEach(...) from class i on, inside the try: a
\* throw ends the walk of this assembly and leaves matches as it is then
walkClasses(assembly, target, i, matches) ==
  IF i > Len(assembly.classes) THEN matches
  ELSE IF assembly.classes[i].nameFails THEN matches
  ELSE walkClasses(assembly, target, i + 1,
                   IF classMatches(assembly.classes[i], target)
                   THEN Append(matches, Match(assembly, assembly.classes[i]))
                   ELSE matches)

walkAssembly(assembly, target, matches) ==
  IF assembly.classesFail THEN matches
  ELSE walkClasses(assembly, target, 1, matches)

RECURSIVE collectMatches(_, _, _, _)
\* assemblies.forEach((assembly) => { try { ... } catch (_) {} })
collectMatches(assemblies, target, k, matches) ==
  IF k > Len(assemblies) THEN matches
  ELSE collectMatches(assemblies, target, k + 1,
                      walkAssembly(assemblies[k], target, matches))

\* Il2Cpp.domain.assembly(name) throws when the domain has no such assembly
hasAssembly(dom, name) == \E k \in 1..Len(dom) : dom[k].name = name

\* the assemblies findClass walks
assembliesOf(dom, target) ==
  IF target.assembly # <<>>
  THEN SelectSeq(dom, LAMBDA a : a.name = target.assembly)
  ELSE dom

\* Array element access: undefined outside the array
elementAt(arr, i) == IF i + 1 \in DOMAIN arr THEN arr[i + 1] ELSE Undefined

Max(a, b) == IF a >= b THEN a ELSE b

\* variant without the clamp from below
pickOfNoFloor(pickIndex, n) == Min(pickIndex, n - 1)

\* Math.min(Math.max(target.pickIndex || 0, 0), matches.length - 1)
pickOf(pickIndex, n) == Min(Max(pickIndex, 0), n - 1)

chooseMatch(matches, target) ==
  IF Len(matches) = 0 THEN Null
  ELSE elementAt(matches, pickOf(target.pickIndex, Len(matches)))

\* findClass(target) against the domain dom
findClass(dom, target) ==
  IF target.assembly # <<>> /\ ~hasAssembly(dom, target.assembly) THEN Null
  ELSE chooseMatch(collectMatches(assembliesOf(dom, target), target, 1, <<>>), target)

(***************************************************************************)
(* hookManager.buildMethodList.                                            *)
(***************************************************************************)
\* a method: its name and what reading method.virtualAddress gives
\*   "ok" an address, "null" a NULL pointer, "undef" nothing, "throws"
Method(name, addr) == [name |-> name, addr |-> addr, hookAddress |-> FALSE]

\* variant that does not test isNull()
safeVirtualAddressNoNullTest(m) == m.addr \in {"ok", "null"}

\* safeVirtualAddress(method) returns an address (TRUE) or null (FALSE)
safeVirtualAddress(m) == m.addr = "ok"

RECURSIVE trimStart(_)
trimStart(s) == IF Len(s) > 0 /\ s[1] = " " THEN trimStart(Tail(s)) ELSE s

RECURSIVE trimEnd(_)
trimEnd(s) ==
  IF Len(s) > 0 /\ s[Len(s)] = " " THEN trimEnd(SubSeq(s, 1, Len(s) - 1)) ELSE s

\* String.prototype.trim
trim(s) == trimEnd(trimStart(s))

\* String.prototype.indexOf (0-based, -1 when absent)
indexOf(s, c) ==
  IF \E p \in 1..Len(s) : s[p] = c
  THEN (CHOOSE p \in 1..Len(s) : s[p] = c /\ \A q \in 1..(p - 1) : s[q] # c) - 1
  ELSE -1

\* the steps of the map callback over one exclude entry
stripDot(name) == IF startsWith(name, <<".">>) THEN sliceFrom(name, 1) ELSE name
cutParen(name) == IF indexOf(name, "(") # -1 THEN slice0(name, indexOf(name, "(")) ELSE name
lastSegment(name) ==
  IF includes(name, <<".">>) THEN sliceFrom(name, lastIndexOf(name, ".") + 1) ELSE name

\* the normalized name of one exclude entry; <<>> stands for the dropped ones
normalizeExclude(val) ==
  IF ~val.isString THEN <<>>
  ELSE IF trim(val.text) = <<>> THEN <<>>
  ELSE trim(lastSegment(cutParen(stripDot(trim(val.text)))))

\* new Set(exclude.filter(...).map(...).filter(Boolean))
excludeSet(filters) ==
  IF ~filters.excludeIsArray THEN {}
  ELSE {normalizeExclude(filters.exclude[k]) : k \in 1..Len(filters.exclude)} \ {<<>>}

\* new RegExp(filters.methodRegex).test(m.name) inside the try: an invalid
\* pattern throws and the filter is skipped
regexRejects(regex, name) ==
  /\ regex.kind = "prefix"
  /\ ~startsWith(name, regex.text)

\* the filter callback of buildMethodList
keepsMethod(m, filters) ==
  /\ ~(excludeSet(filters) # {} /\ m.name \in excludeSet(filters))
  /\ ~(filters.methodNameContains # <<>> /\ ~includes(m.name, filters.methodNameContains))
  /\ ~(filters.methodRegex.kind # "none" /\ regexRejects(filters.methodRegex, m.name))
  /\ safeVirtualAddress(m)

RECURSIVE buildMethodList(_, _, _)
\* klass.methods.filter(...) over the first n methods; a kept method gets
\* its __hookAddress
buildMethodList(methods, filters, n) ==
  IF n = 0 THEN <<>>
  ELSE IF keepsMethod(methods[n], filters)
  THEN Append(buildMethodList(methods, filters, n - 1),
              [methods[n] EXCEPT !.hookAddress = TRUE])
  ELSE buildMethodList(methods, filters, n - 1)

Methods ==
  { Method(<<"U","p","d","a","t","e">>, "ok"), Method(<<"U","p","d","a","t","e">>, "null"),
    Method(<<"R","e","s","e","t">>, "throws"), Method(<<".","c","t","o","r">>, "ok"),
    Method(<<"c","t","o","r">>, "ok"), Method(<<"g","e","t","_","N","a","m","e">>, "ok"),
    Method(<<"g","e","t","_","N","a","m","e">>, "undef"), Method(<<"B","a","r">>, "ok") }

Text(t) == [isString |-> TRUE, text |-> t]
NotAString == [isString |-> FALSE, text |-> <<>>]

ExcludeLists ==
  { <<>>,
    <<Text(<<"U","p","d","a","t","e">>)>>,
    <<Text(<<" ","U","p","d","a","t","e"," ">>), NotAString>>,
    <<Text(<<"G","a","m","e",".","P","l","a","y","e","r",".","U","p","d","a","t","e","(","i","n","t",")">>)>>,
    <<Text(<<".","c","t","o","r">>), Text(<<" "," ">>)>>,
    <<Text(<<"F","o","o","."," ","B","a","r">>), Text(<<"g","e","t","_","N","a","m","e","(",")">>)>>,
    <<Text(<<"F","o","o",".">>)>> }

NoRegex == [kind |-> "none", text |-> <<>>]
PrefixRegex(t) == [kind |-> "prefix", text |-> t]      \* "^t"
InvalidRegex == [kind |-> "invalid", text |-> <<"(">>]  \* "("

\* filters.exclude is an array of entries, or something else
Excludes ==
  {[isArray |-> TRUE, items |-> e] : e \in ExcludeLists}
    \cup {[isArray |-> FALSE, items |-> <<Text(<<"U","p","d","a","t","e">>)>>]}

Filters ==
  {[excludeIsArray |-> x.isArray, exclude |-> x.items,
    methodNameContains |-> c, methodRegex |-> r] :
     x \in Excludes, c \in {<<>>, <<"e">>, <<"N","a","m","e">>},
     r \in {NoRegex, PrefixRegex(<<"g","e","t","_">>), PrefixRegex(<<"U">>), InvalidRegex}}

NoFilters ==
  [excludeIsArray |-> FALSE, exclude |-> <<>>, methodNameContains |-> <<>>,
   methodRegex |-> NoRegex]

\* a plugin builds the list of methods to hook of a resolved class
CallBuildMethodList ==
  /\ resolved.fn = "none"
  /\ \E methods \in SeqsUpTo(Methods, MaxClassMethods), filters \in Filters :
       resolved' = [resolved EXCEPT !.fn = "buildMethodList",
                                    !.methods = methods, !.filters = filters,
                                    !.list = buildMethodList(methods, filters, Len(methods))]
  /\ UNCHANGED <<installVars, callVars, decodeVars, lifeVars, domain, extVars>>

(***************************************************************************)
(* Domains and target configurations.                                      *)
(***************************************************************************)
SampleV2 == Class(<<"D","e","m","o">>, <<"S","a","m","p","l","e","V","2">>)
LegacySample == Class(<<"D","e","m","o">>, <<"L","e","g","a","c","y","S","a","m","p","l","e">>)
CoreSample == Class(<<"S","y","s">>, <<"S","a","m","p","l","e">>)
Other == Class(<<>>, <<"O","t","h","e","r">>)

Domains ==
  { <<>>,
    <<Assembly(<<"G","a","m","e">>, <<SampleV2, LegacySample>>)>>,
    <<Assembly(<<"G","a","m","e">>, <<SampleV2, Other, LegacySample>>),
      Assembly(<<"C","o","r","e">>, <<CoreSample>>)>>,
    <<Assembly(<<"C","o","r","e">>, <<CoreSample>>),
      Assembly(<<"G","a","m","e">>, <<LegacySample, SampleV2>>)>>,
    <<ClosedAssembly(<<"G","a","m","e">>, <<SampleV2, LegacySample>>),
      Assembly(<<"C","o","r","e">>, <<CoreSample, Other>>)>>,
    <<Assembly(<<"G","a","m","e">>, <<SampleV2, BrokenClass, LegacySample>>),
      Assembly(<<"C","o","r","e">>, <<CoreSample>>)>>,
    <<Assembly(<<"G","a","m","e">>, <<BrokenClass, SampleV2>>),
      Assembly(<<"C","o","r","e">>, <<Other>>)>> }

TargetConfigs ==
  [fullName : {<<>>, <<"D","e","m","o",".","S","a","m","p","l","e","V","2">>, <<"D","e","m","o",".">>, <<"S","a","m","p","l","e">>},
   className : {<<>>, <<"S","a","m","p","l","e">>, <<"L","e","g","a","c","y","S","a","m","p","l","e">>},
   namespace : {<<>>, <<"D","e","m","o">>},
   assembly : {<<>>, <<"G","a","m","e">>, <<"G","a","m","e",".","D","L","L">>, <<"N","o","p","e">>},
   allowPartial : BOOLEAN,
   pickIndex : (0 - 1)..MaxPickIndex]

NoTarget ==
  [fullName |-> <<>>, className |-> <<>>, namespace |-> <<>>, assembly |-> <<>>,
   allowPartial |-> FALSE, pickIndex |-> 0]

NoResolution ==
  [fn |-> "none", target |-> NoTarget, result |-> Null, latest |-> Null, repeats |-> 0,
   methods |-> <<>>, filters |-> NoFilters, list |-> <<>>]

\* a plugin normalizes a configured target and resolves it
CallFindClass ==
  /\ resolved.fn = "none"
  /\ \E cfg \in TargetConfigs :
       resolved' = [resolved EXCEPT !.fn = "findClass",
                                    !.target = normalizeTarget(cfg),
                                    !.result = findClass(domain, normalizeTarget(cfg)),
                                    !.latest = findClass(domain, normalizeTarget(cfg))]
  /\ UNCHANGED <<installVars, callVars, decodeVars, lifeVars, domain, extVars>>

\* the same target is resolved again in the same process snapshot
CallFindClassAgain ==
  /\ resolved.fn = "findClass"
  /\ resolved.repeats < MaxRepeats
  /\ resolved' = [resolved EXCEPT !.latest = findClass(domain, resolved.target),
                                  !.repeats = @ + 1]
  /\ UNCHANGED <<installVars, callVars, decodeVars, lifeVars, domain, extVars>>

NextResolve ==
  \/ CallFindClass
  \/ CallFindClassAgain
  \/ CallBuildMethodList

(***************************************************************************)
(* Part VI.  Object dumps.                                                 *)
(*                                                                         *)
(* The hooks call dumpObjectFields(argPtr, p.type.name, config.dump) for   *)
(* every argument whose type name is listed in dump.types.  The fields of  *)
(* a block are rendered by summarizeFieldValue with the dump options,      *)
(* which name no collection switch: rendering touches no cache and is left *)
(* out of the block kept here.                                             *)
(***************************************************************************)
DefaultMaxPerType == 20

\* config.dump
DumpConfig(deduplication, maxPerType) ==
  [deduplication |-> deduplication, maxPerType |-> maxPerType]

DefaultDumpConfig == DumpConfig(TRUE, DefaultMaxPerType)

DumpConfigs == {DumpConfig(d, m) : d \in BOOLEAN, m \in 0..MaxPerTypeCfg}

\* the declared type names of the dumped arguments
DumpTypeNames == {<<"G","a","m","e",".","F","o","o">>, <<"F","o","o">>}

\* the argument pointers: nothing, null, three objects and an address at
\* which no object can be constructed
DumpPtrs ==
  {Undef, NullPtr,
   Ptr(ObjectAddr, ObjectCell(<<"G","a","m","e">>, <<"F","o","o">>, <<>>, NoToString)),
   Ptr(FieldAddr, ObjectCell(<<"G","a","m","e">>, <<"F","o","o">>, <<>>, NoToString)),
   Ptr(ArrayAddr, [ObjectCell(<<"G","a","m","e">>, <<"F","o","o">>, <<>>, NoToString) EXCEPT !.classFails = TRUE]),
   Ptr(StringAddr, BaseCell)}

DumpPairs == {<<typeName, p.a>> : typeName \in DumpTypeNames, p \in DumpPtrs}

\* dumpState after construction and after clearDumpState
NoDumpState == [seen |-> {}, countByType |-> EmptyMap]

NothingDumped == [pair \in DumpPairs |-> 0]

\* countByType.get(typeName) || 0
countOf(st, typeName) ==
  IF hasKey(st.countByType, typeName) THEN st.countByType[typeName] ELSE 0

\* `${typeName}@${ptr}`
dumpKey(p, typeName) == typeName \o <<"@">> \o ptrToString(p.a)

\* variant that never remembers a key
canDumpPtrNoSeenAdd(p, typeName, opts, st) ==
  IF opts.deduplication /\ dumpKey(p, typeName) \in st.seen
  THEN [ok |-> FALSE, state |-> st]
  ELSE IF opts.maxPerType # 0 /\ countOf(st, typeName) >= opts.maxPerType
  THEN [ok |-> FALSE, state |-> st]
  ELSE [ok |-> TRUE,
        state |-> [seen |-> st.seen,
                   countByType |-> setKey(st.countByType, typeName, countOf(st, typeName) + 1)]]

\* variant that stops one object late
canDumpPtrLateStop(p, typeName, opts, st) ==
  IF opts.deduplication /\ dumpKey(p, typeName) \in st.seen
  THEN [ok |-> FALSE, state |-> st]
  ELSE IF opts.maxPerType # 0 /\ countOf(st, typeName) > opts.maxPerType
  THEN [ok |-> FALSE, state |-> st]
  ELSE [ok |-> TRUE,
        state |-> [seen |-> IF opts.deduplication
                            THEN st.seen \cup {dumpKey(p, typeName)} ELSE st.seen,
                   countByType |-> setKey(st.countByType, typeName, countOf(st, typeName) + 1)]]

\* formatters.canDumpPtr: [ok, state]
canDumpPtr(p, typeName, opts, st) ==
  IF opts.deduplication /\ dumpKey(p, typeName) \in st.seen
  THEN [ok |-> FALSE, state |-> st]
  ELSE IF opts.maxPerType # 0 /\ countOf(st, typeName) >= opts.maxPerType
  THEN [ok |-> FALSE, state |-> st]
  ELSE [ok |-> TRUE,
        state |-> [seen |-> IF opts.deduplication
                            THEN st.seen \cup {dumpKey(p, typeName)} ELSE st.seen,
                   countByType |-> setKey(st.countByType, typeName, countOf(st, typeName) + 1)]]

\* dumpObjectFields reaches ui.dumpBlock: the object is constructed and its
\* class can be read (obj.class.namespace is read outside any try)
printsBlock(p) == ~p.cell.ctorFails /\ ~p.cell.classFails

\* formatters.dumpObjectFields(ptr, typeName, config.dump)
DumpObjectFields(p, typeName) ==
  /\ ~isFalsy(p) /\ ~isNullPtr(p)
  /\ countOf(dumpState, typeName) < MaxDumpCalls
  /\ canDumpPtr(p, typeName, dumpConfig, dumpState).ok
  /\ dumpState' = canDumpPtr(p, typeName, dumpConfig, dumpState).state
  /\ dumped' = IF printsBlock(p)
               THEN [dumped EXCEPT ![<<typeName, p.a>>] = @ + 1]
               ELSE dumped
  /\ UNCHANGED <<installVars, callVars, decodeVars, lifeVars, resolveVars, dumpConfig, managerVars, skipVars>>

\* the same call when it returns at once: no pointer, or canDumpPtr says no
DumpObjectFieldsSkips(p, typeName) ==
  /\ \/ isFalsy(p) \/ isNullPtr(p)
     \/ ~canDumpPtr(p, typeName, dumpConfig, dumpState).ok
  /\ UNCHANGED vars

CallDumpObjectFields ==
  \E p \in DumpPtrs, typeName \in DumpTypeNames :
    \/ DumpObjectFields(p, typeName)
    \/ DumpObjectFieldsSkips(p, typeName)

\* formatters.clearDumpState
ClearDumpState ==
  /\ dumpState # NoDumpState
  /\ dumpState' = NoDumpState
  /\ dumped' = NothingDumped
  /\ UNCHANGED <<installVars, callVars, decodeVars, lifeVars, resolveVars, dumpConfig, managerVars, skipVars>>

NextDump ==
  \/ CallDumpObjectFields
  \/ ClearDumpState

(***************************************************************************)
(* Part VII.  The plugin manager.                                          *)
(*                                                                         *)
(* main() registers the plugins whose scripts are loaded, calls load for   *)
(* every plugin the configuration enables, then startAll; stopAll is       *)
(* called by the operator.  What a plugin's init, start and stop do is the *)
(* plugin's business: each call here ends in one of its possible outcomes. *)
(***************************************************************************)
\* the names a configuration can enable
PluginNames == {"logger", "combat-anim", "other"}

InitOutcomes == {"truthy", "falsy", "throws"}
\* "missing": the plugin has no such function
StepOutcomes == {"ok", "throws", "missing"}

NoManager == [plugins |-> {}, activePlugins |-> <<>>]

NoLifecycle ==
  [phase |-> "loading",
   init |-> [name \in PluginNames |-> "none"],
   start |-> [name \in PluginNames |-> "none"],
   stop |-> [name \in PluginNames |-> "none"]]

\* PluginManager.load(name, config): the plugin is pushed on activePlugins
\* when its init returned a truthy value; a throw of init is caught
ManagerLoad(name) ==
  /\ lifecycle.phase = "loading"
  /\ lifecycle.init[name] = "none"
  /\ IF name \notin manager.plugins
     THEN /\ lifecycle' = [lifecycle EXCEPT !.init[name] = "notfound"]
          /\ UNCHANGED manager
     ELSE \E outcome \in InitOutcomes :
            /\ lifecycle' = [lifecycle EXCEPT !.init[name] = outcome]
            /\ manager' = IF outcome = "truthy"
                          THEN [manager EXCEPT !.activePlugins = Append(@, name)]
                          ELSE manager
  /\ UNCHANGED <<installVars, callVars, decodeVars, lifeVars, resolveVars, dumpVars, skipVars>>

RECURSIVE forEachBare(_, _, _, _)
\* variant without the try: the first throw ends the loop
forEachBare(active, outcomes, k, done) ==
  IF k > Len(active) THEN done
  ELSE IF outcomes[active[k]] = "throws"
  THEN [done EXCEPT ![active[k]] = "throws"]
  ELSE forEachBare(active, outcomes, k + 1,
                   [done EXCEPT ![active[k]] = outcomes[active[k]]])

RECURSIVE forEachTried(_, _, _, _)
\* activePlugins.forEach with the body in a try: the outcome of the step for
\* the plugins from index k on, added to what `done` holds
forEachTried(active, outcomes, k, done) ==
  IF k > Len(active) THEN done
  ELSE forEachTried(active, outcomes, k + 1,
                    [done EXCEPT ![active[k]] = outcomes[active[k]]])

\* PluginManager.startAll
ManagerStartAll ==
  /\ lifecycle.phase = "loading"
  /\ \E outcomes \in [PluginNames -> StepOutcomes] :
       lifecycle' = [lifecycle EXCEPT
                       !.phase = "started",
                       !.start = forEachTried(manager.activePlugins, outcomes, 1, @)]
  /\ UNCHANGED <<installVars, callVars, decodeVars, lifeVars, resolveVars, dumpVars, manager, skipVars>>

\* PluginManager.stopAll
ManagerStopAll ==
  /\ lifecycle.phase = "started"
  /\ \E outcomes \in [PluginNames -> StepOutcomes] :
       lifecycle' = [lifecycle EXCEPT
                       !.phase = "stopped",
                       !.stop = forEachTried(manager.activePlugins, outcomes, 1, @)]
  /\ manager' = [manager EXCEPT !.activePlugins = <<>>]
  /\ UNCHANGED <<installVars, callVars, decodeVars, lifeVars, resolveVars, dumpVars, skipVars>>

NextManager ==
  \/ \E name \in PluginNames : ManagerLoad(name)
  \/ ManagerStartAll
  \/ ManagerStopAll

(***************************************************************************)
(* Part VIII.  The skip mode of the combat-anim plugin.                    *)
(*                                                                         *)
(* The listeners of hookSkipTargets run on the thread that calls the       *)
(* hooked method; the setTimeout callbacks of scheduleFinish run one at a  *)
(* time on the script's own thread.  finishStep calls method.invoke(),     *)
(* which runs a method of the target: until it returns, the target may     *)
(* call a hooked method again, on this thread or another, and the          *)
(* callbacks of those calls run.  finishStep is therefore two steps, up to *)
(* the invoke and from its return.                                         *)
(***************************************************************************)
Steps == 1..MaxSteps
FrameIds == 1..MaxFrames

\* config.skip of an enabled skip mode
SkipConfig(dedupe, finishDelayMs, finishTiming) ==
  [enabled |-> TRUE, dedupe |-> dedupe, finishDelayMs |-> finishDelayMs,
   finishTiming |-> finishTiming]

SkipConfigs ==
  {SkipConfig(dedupe, delay, timing) :
     dedupe \in BOOLEAN, delay \in 0..MaxFinishDelay, timing \in {"enter", "leave"}}

\* the plugin's state after init(): mode "skip", nothing hooked
NoAnimState ==
  [skipMode |-> TRUE, finishedSteps |-> {}, finishPending |-> {},
   hooked |-> FALSE, stopped |-> FALSE]

\* an intercepted call: the step it is called on, whether onEnter stored
\* this.__thisPtr, and its position
\*   "none"      no call
\*   "inEnter"   onEnter is inside method.invoke()
\*   "running"   between onEnter and onLeave
\*   "inLeave"   onLeave is inside method.invoke()
NoFrame == [step |-> 0, captured |-> FALSE, pos |-> "none"]
NoFrames == [f \in FrameIds |-> NoFrame]
NoneOfSteps == [s \in Steps |-> 0]

\* what a finishStep or scheduleFinish call did: the plugin state, whether
\* it went into method.invoke(), the timers
Skip(st, invoked, tm) == [state |-> st, invoked |-> invoked, timers |-> tm]

\* finishStep up to method.invoke(): the key leaves finishPending; with
\* dedupe a finished step returns at once; otherwise the object is built
\* (alive: it can be) and the finish method is invoked
finishStep(key, cfg, alive, st, tm) ==
  IF cfg.dedupe /\ key \in st.finishedSteps
  THEN Skip([st EXCEPT !.finishPending = @ \ {key}], FALSE, tm)
  ELSE Skip([st EXCEPT !.finishPending = @ \ {key}], alive, tm)

\* scheduleFinish(thisPtr) for a step pointer
scheduleFinish(key, cfg, alive, st, tm) ==
  IF cfg.dedupe /\ key \in st.finishPending THEN Skip(st, FALSE, tm)
  ELSE IF cfg.finishDelayMs <= 0
  THEN finishStep(key, cfg, alive,
                  IF cfg.dedupe THEN [st EXCEPT !.finishPending = @ \cup {key}] ELSE st,
                  tm)
  ELSE Skip(IF cfg.dedupe THEN [st EXCEPT !.finishPending = @ \cup {key}] ELSE st,
            FALSE, [tm EXCEPT ![key] = @ + 1])

\* the handlers do nothing unless the mode is on: modeEnabled("skip") &&
\* state.config.skip.enabled
skipActive == animState.skipMode /\ skipConfig.enabled

\* the finishStep calls of step s that are inside method.invoke()
invoking(s) ==
  Cardinality({f \in FrameIds : frames[f].step = s /\ frames[f].pos \in {"inEnter", "inLeave"}})
    + (IF timerCall = s THEN 1 ELSE 0)

\* method.invoke() returned normally: the step is remembered under dedupe
invoked(s, st) ==
  IF skipConfig.dedupe THEN [st EXCEPT !.finishedSteps = @ \cup {s}] ELSE st

\* CombatAnimPlugin.start -> installHooks -> hookSkipTargets
SkipStart ==
  /\ ~animState.hooked /\ ~animState.stopped
  /\ animState' = [animState EXCEPT !.hooked = TRUE]
  /\ UNCHANGED <<installVars, callVars, decodeVars, lifeVars, resolveVars, dumpVars, managerVars,
                 skipConfig, frames, finishTimers, timerCall, finishes>>

\* onEnter of a skip target called on step s
SkipEnter(f, s) ==
  /\ animState.hooked
  /\ frames[f].pos = "none"
  /\ IF ~skipActive
     THEN /\ frames' = [frames EXCEPT ![f] = [step |-> s, captured |-> FALSE, pos |-> "running"]]
          /\ UNCHANGED <<animState, finishTimers>>
     ELSE IF skipConfig.finishTiming # "enter"
     THEN /\ frames' = [frames EXCEPT ![f] = [step |-> s, captured |-> TRUE, pos |-> "running"]]
          /\ UNCHANGED <<animState, finishTimers>>
     ELSE \E alive \in BOOLEAN :
            /\ finishTimers[s] < MaxPendingTimers \/ skipConfig.finishDelayMs <= 0
            /\ animState' = scheduleFinish(s, skipConfig, alive, animState, finishTimers).state
            /\ finishTimers' = scheduleFinish(s, skipConfig, alive, animState, finishTimers).timers
            /\ frames' = [frames EXCEPT ![f] =
                 [step |-> s, captured |-> TRUE,
                  pos |-> IF scheduleFinish(s, skipConfig, alive, animState, finishTimers).invoked
                          THEN "inEnter" ELSE "running"]]
  /\ UNCHANGED <<installVars, callVars, decodeVars, lifeVars, resolveVars, dumpVars, managerVars,
                 skipConfig, timerCall, finishes>>

\* onLeave of call f; without a stored pointer scheduleFinish(undefined)
\* returns at once
SkipLeave(f) ==
  /\ animState.hooked
  /\ frames[f].pos = "running"
  /\ IF skipActive /\ skipConfig.finishTiming = "leave" /\ frames[f].captured
     THEN \E alive \in BOOLEAN :
            /\ finishTimers[frames[f].step] < MaxPendingTimers \/ skipConfig.finishDelayMs <= 0
            /\ animState' =
                 scheduleFinish(frames[f].step, skipConfig, alive, animState, finishTimers).state
            /\ finishTimers' =
                 scheduleFinish(frames[f].step, skipConfig, alive, animState, finishTimers).timers
            /\ frames' = [frames EXCEPT ![f] =
                 IF scheduleFinish(frames[f].step, skipConfig, alive, animState, finishTimers).invoked
                 THEN [@ EXCEPT !.pos = "inLeave"] ELSE NoFrame]
     ELSE /\ frames' = [frames EXCEPT ![f] = NoFrame]
          /\ UNCHANGED <<animState, finishTimers>>
  /\ UNCHANGED <<installVars, callVars, decodeVars, lifeVars, resolveVars, dumpVars, managerVars,
                 skipConfig, timerCall, finishes>>

\* method.invoke() returns into the onEnter or onLeave of call f: normally,
\* or by a throw for every finish method
InvokeReturns(f) ==
  /\ frames[f].pos \in {"inEnter", "inLeave"}
  /\ frames' = [frames EXCEPT ![f] = IF @.pos = "inEnter" THEN [@ EXCEPT !.pos = "running"]
                                     ELSE NoFrame]
  /\ \E ok \in BOOLEAN :
       IF ok
       THEN /\ finishes[frames[f].step] < MaxFinishes
            /\ finishes' = [finishes EXCEPT ![frames[f].step] = @ + 1]
            /\ animState' = invoked(frames[f].step, animState)
       ELSE UNCHANGED <<finishes, animState>>
  /\ UNCHANGED <<installVars, callVars, decodeVars, lifeVars, resolveVars, dumpVars, managerVars,
                 skipConfig, finishTimers, timerCall>>

\* a setTimeout callback of scheduleFinish runs: finishStep(thisPtr)
FinishTimerFires(s) ==
  /\ timerCall = 0
  /\ finishTimers[s] > 0
  /\ finishTimers' = [finishTimers EXCEPT ![s] = @ - 1]
  /\ \E alive \in BOOLEAN :
       /\ animState' = finishStep(s, skipConfig, alive, animState, finishTimers).state
       /\ timerCall' = IF finishStep(s, skipConfig, alive, animState, finishTimers).invoked
                       THEN s ELSE 0
  /\ UNCHANGED <<installVars, callVars, decodeVars, lifeVars, resolveVars, dumpVars, managerVars,
                 skipConfig, frames, finishes>>

\* method.invoke() returns into the timer callback
TimerInvokeReturns ==
  /\ timerCall # 0
  /\ timerCall' = 0
  /\ \E ok \in BOOLEAN :
       IF ok
       THEN /\ finishes[timerCall] < MaxFinishes
            /\ finishes' = [finishes EXCEPT ![timerCall] = @ + 1]
            /\ animState' = invoked(timerCall, animState)
       ELSE UNCHANGED <<finishes, animState>>
  /\ UNCHANGED <<installVars, callVars, decodeVars, lifeVars, resolveVars, dumpVars, managerVars,
                 skipConfig, frames, finishTimers>>

\* rpc.exports.combatanim.setmode / setconfig: updateRuntimeConfig
SkipSetMode ==
  /\ animState.hooked \/ animState.stopped
  /\ animState' = [animState EXCEPT !.skipMode = ~@]
  /\ UNCHANGED <<installVars, callVars, decodeVars, lifeVars, resolveVars, dumpVars, managerVars,
                 skipConfig, frames, finishTimers, timerCall, finishes>>

\* CombatAnimPlugin.stop: every listener is detached, state.hooks = [].  A
\* call between its onEnter and onLeave loses its listener; a callback that
\* is inside invoke() goes on to its end, and no onLeave follows an onEnter.
SkipStop ==
  /\ animState.hooked
  /\ animState' = [animState EXCEPT !.hooked = FALSE, !.stopped = TRUE]
  /\ frames' = [f \in FrameIds |->
                  IF frames[f].pos = "inLeave" THEN frames[f]
                  ELSE IF frames[f].pos = "inEnter" THEN [frames[f] EXCEPT !.pos = "inLeave"]
                  ELSE NoFrame]
  /\ UNCHANGED <<installVars, callVars, decodeVars, lifeVars, resolveVars, dumpVars, managerVars,
                 skipConfig, finishTimers, timerCall, finishes>>

NextSkip ==
  \/ SkipStart
  \/ \E f \in FrameIds, s \in Steps : SkipEnter(f, s)
  \/ \E f \in FrameIds : SkipLeave(f)
  \/ \E f \in FrameIds : InvokeReturns(f)
  \/ \E s \in Steps : FinishTimerFires(s)
  \/ TimerInvokeReturns
  \/ SkipSetMode
  \/ SkipStop

\* the combat-anim plugin is initialised with the shipped skip settings
InitSkipIdle ==
  /\ skipConfig = SkipConfig(TRUE, 0, "leave")
  /\ animState = NoAnimState
  /\ frames = NoFrames
  /\ finishTimers = NoneOfSteps
  /\ timerCall = 0
  /\ finishes = NoneOfSteps

\* the state of the parts added to the session when nothing was dumped
InitExt ==
  /\ dumpConfig = DefaultDumpConfig
  /\ dumpState = NoDumpState
  /\ dumped = NothingDumped
  /\ manager = NoManager
  /\ lifecycle = NoLifecycle
  /\ InitSkipIdle

\* the script is loaded and one call input is at hand
InitDecode ==
  /\ session = "none"
  /\ runs = [rid \in RunIds |-> UnusedRun]
  /\ now = 0
  /\ turn = 0
  /\ attachLog = <<>>
  /\ hooks = [h \in HookIds |-> "none"]
  /\ inv = [i \in InvIds |-> IdleInv]
  /\ classTypeCache = EmptyMap
  /\ enumCache = EmptyMap
  /\ plugState = [pl \in Plugins |-> "idle"]
  /\ life = [h \in LifeIds |-> NoListener]
  /\ retained = [pl \in Plugins |-> {}]
  /\ domain = <<>>
  /\ resolved = NoResolution
  /\ calls = 0
  /\ \E input \in Inputs : lastCall = [NoCall EXCEPT !.input = input]
  /\ InitExt

\* one formatter call ends: its outcome is kept and the caches carry over
finishCall(fn, res) ==
  /\ lastCall' = [fn |-> fn, input |-> lastCall.input, res |-> res]
  /\ classTypeCache' = res.eff.ctc
  /\ enumCache' = res.eff.ec
  /\ calls' = calls + 1
  /\ UNCHANGED <<installVars, callVars, lifeVars, resolveVars, extVars>>

CallFormatArg ==
  /\ calls < MaxCalls
  /\ lastCall.input.p.k \in {"undef", "ptr"}
  /\ LET i == lastCall.input IN
     finishCall("formatArg",
                formatArg(i.p, i.typeName, i.maxStrLen, i.config, i.type,
                          NewEff(classTypeCache, enumCache)))

CallFormatReturn ==
  /\ calls < MaxCalls
  /\ lastCall.input.p.k \in {"undef", "ptr"}
  /\ LET i == lastCall.input IN
     finishCall("formatReturn",
                formatReturn(i.p, i.typeName, i.maxStrLen, i.config, i.type,
                             NewEff(classTypeCache, enumCache)))

CallPreviewObject ==
  /\ calls < MaxCalls
  /\ lastCall.input.p.k \in {"undef", "ptr"}
  /\ LET i == lastCall.input IN
     finishCall("previewObject",
                previewObject(i.p, getPreviewOptions(i.config),
                              NewEff(classTypeCache, enumCache)))

CallSummarizeFieldValue ==
  /\ calls < MaxCalls
  /\ LET i == lastCall.input IN
     finishCall("summarizeFieldValue",
                summarizeFieldValue(i.p, i.typeName, getPreviewOptions(i.config),
                                    NewEff(classTypeCache, enumCache)))

NextDecode ==
  \/ CallFormatArg
  \/ CallFormatReturn
  \/ CallPreviewObject
  \/ CallSummarizeFieldValue

\* a configuration that expands lists but not dictionaries
ListsOnlyConfig ==
  [Config(FALSE, FALSE, TRUE, "") EXCEPT !.formatting.collections.dictionaries.enabled = FALSE]

\* a formatting call on some other value, before the calls that are observed
OtherInputs ==
  {Input(p, <<"S","y","s","t","e","m",".","O","b","j","e","c","t">>, NoType, config, MaxStringLength) :
     p \in {Ptr(ObjectAddr, CollectionCell(<<"L","i","s","t","~","1">>, 4, <<>>)),
            Ptr(ObjectAddr, CollectionCell(<<"D","i","c","t","i","o","n","a","r","y","~","2">>, 0, <<>>)),
            Ptr(ObjectAddr, ObjectCell(<<"G","a","m","e">>, <<"F","o","o">>, FooFields, NoToString))},
     config \in {ListsOnlyConfig}}

\* some other value was formatted earlier: only the caches keep a trace of it
CallOther ==
  /\ lastCall.fn = "none"
  /\ classTypeCache = EmptyMap /\ enumCache = EmptyMap
  /\ \E i \in OtherInputs :
       LET res == formatArg(i.p, i.typeName, i.maxStrLen, i.config, i.type,
                            NewEff(classTypeCache, enumCache))
       IN /\ classTypeCache' = res.eff.ctc
          /\ enumCache' = res.eff.ec
  /\ UNCHANGED <<calls, lastCall, installVars, callVars, lifeVars, resolveVars, extVars>>

\* formatArg is called on the input, for the first time or again
RepeatFormatArg ==
  /\ lastCall.fn \in {"none", "formatArg"}
  /\ CallFormatArg

\* previewObject is called on the input, for the first time or again
RepeatPreviewObject ==
  /\ lastCall.fn \in {"none", "previewObject"}
  /\ CallPreviewObject

NextRepeat ==
  \/ CallOther
  \/ RepeatFormatArg
  \/ RepeatPreviewObject

SpecRepeat == InitDecode /\ [][NextRepeat]_vars

SpecDecode == InitDecode /\ [][NextDecode]_vars

Init ==
  /\ session = "none"
  /\ runs = [rid \in RunIds |-> UnusedRun]
  /\ now = 0
  /\ turn = 0
  /\ attachLog = <<>>
  /\ hooks = [h \in HookIds |-> "none"]
  /\ inv = [i \in InvIds |-> IdleInv]
  /\ classTypeCache = EmptyMap
  /\ enumCache = EmptyMap
  /\ calls = 0
  /\ lastCall = NoCall
  /\ plugState = [pl \in Plugins |-> "idle"]
  /\ life = [h \in LifeIds |-> NoListener]
  /\ retained = [pl \in Plugins |-> {}]
  /\ domain = <<>>
  /\ resolved = NoResolution
  /\ InitExt

Next ==
  \/ StartInstallHooks
  \/ LoggerStart
  \/ \E rid \in RunIds : InstallTimerFires(rid)
  \/ \E rid \in RunIds : IntervalFires(rid)
  \/ Advance

Spec == Init /\ [][Next]_vars

NextCall ==
  \/ \E h \in HookIds : AttachHook(h)
  \/ \E i \in InvIds, h \in HookIds : OnEnter(i, h)
  \/ \E i \in InvIds : OnLeave(i)

NextFair ==
  \/ StartInstallHooksShort
  \/ LoggerStartShort
  \/ \E rid \in RunIds : InstallTimerFires(rid)
  \/ \E rid \in RunIds : IntervalFires(rid)
  \/ Advance

\* the event loop: a timer that is due fires, and time does not stand still
\* while a timer is pending
SpecFair == Init /\ [][NextFair]_vars /\ WF_vars(NextFair)

SpecCall == Init /\ [][NextCall]_vars

SpecLife == Init /\ [][NextLife]_vars

\* a process snapshot: the domain is one of Domains and stays as it is
InitResolve ==
  /\ session = "none"
  /\ runs = [rid \in RunIds |-> UnusedRun]
  /\ now = 0
  /\ turn = 0
  /\ attachLog = <<>>
  /\ hooks = [h \in HookIds |-> "none"]
  /\ inv = [i \in InvIds |-> IdleInv]
  /\ classTypeCache = EmptyMap
  /\ enumCache = EmptyMap
  /\ calls = 0
  /\ lastCall = NoCall
  /\ plugState = [pl \in Plugins |-> "idle"]
  /\ life = [h \in LifeIds |-> NoListener]
  /\ retained = [pl \in Plugins |-> {}]
  /\ domain \in Domains
  /\ resolved = NoResolution
  /\ InitExt

SpecResolve == InitResolve /\ [][NextResolve]_vars

\* the script is loaded with nothing started
InitCore ==
  /\ session = "none"
  /\ runs = [rid \in RunIds |-> UnusedRun]
  /\ now = 0
  /\ turn = 0
  /\ attachLog = <<>>
  /\ hooks = [h \in HookIds |-> "none"]
  /\ inv = [i \in InvIds |-> IdleInv]
  /\ classTypeCache = EmptyMap
  /\ enumCache = EmptyMap
  /\ calls = 0
  /\ lastCall = NoCall
  /\ plugState = [pl \in Plugins |-> "idle"]
  /\ life = [h \in LifeIds |-> NoListener]
  /\ retained = [pl \in Plugins |-> {}]
  /\ domain = <<>>
  /\ resolved = NoResolution

\* a session with one dump configuration
InitDump ==
  /\ InitCore
  /\ dumpConfig \in DumpConfigs
  /\ dumpState = NoDumpState
  /\ dumped = NothingDumped
  /\ manager = NoManager
  /\ lifecycle = NoLifecycle
  /\ InitSkipIdle

SpecDump == InitDump /\ [][NextDump]_vars

\* main() has registered the plugins whose scripts were loaded
InitManager ==
  /\ InitCore
  /\ dumpConfig = DefaultDumpConfig
  /\ dumpState = NoDumpState
  /\ dumped = NothingDumped
  /\ \E registered \in SUBSET PluginNames : manager = [NoManager EXCEPT !.plugins = registered]
  /\ lifecycle = NoLifecycle
  /\ InitSkipIdle

SpecManager == InitManager /\ [][NextManager]_vars

\* the combat-anim plugin is initialised with one skip configuration
InitSkip ==
  /\ InitCore
  /\ dumpConfig = DefaultDumpConfig
  /\ dumpState = NoDumpState
  /\ dumped = NothingDumped
  /\ manager = NoManager
  /\ lifecycle = NoLifecycle
  /\ skipConfig \in SkipConfigs
  /\ animState = NoAnimState
  /\ frames = NoFrames
  /\ finishTimers = NoneOfSteps
  /\ timerCall = 0
  /\ finishes = NoneOfSteps

SpecSkip == InitSkip /\ [][NextSkip]_vars

(***************************************************************************)
(* Properties of installation runs.                                        *)
(***************************************************************************)
LogIdx == DOMAIN attachLog

\* number of hooks run rid has attached successfully so far
Attached(rid) ==
  Cardinality({i \in LogIdx : attachLog[i].run = rid /\ attachLog[i].ok})

RECURSIVE SumAttached(_)
SumAttached(n) == IF n = 0 THEN 0 ELSE SumAttached(n - 1) + Attached(n)

\* C1: at every point of every installation run, the number of hooks the run
\* has attached successfully is at most the configured maxHooks (>= 0).
C1_AttachedWithinMaxHooks ==
  \A rid \in RunIds :
    runs[rid].state # "unused" => Attached(rid) <= runs[rid].cfgMaxHooks

\* C5: a finished run has attached min(maxHooks, number of hookable methods)
\* hooks, i.e. it went on in list order until maxHooks attaches succeeded or
\* the list was exhausted, and every method it did not reach is unhooked;
\* 5 hookable methods with maxHooks 3 give 3 installed and 2 skipped.
C5_AttachUntilBudgetOrEnd ==
  \A rid \in RunIds :
    LET r == runs[rid] IN
    r.state = "done" =>
      /\ Attached(rid) = Min(r.cfgMaxHooks, CountKind(r.methods, Len(r.methods), {"ok"}))
      /\ \A i \in LogIdx : attachLog[i].run = rid => attachLog[i].meth <= r.idx
      /\ (r.methods = <<"ok", "ok", "ok", "ok", "ok">> /\ r.cfgMaxHooks = 3)
           => (Attached(rid) = 3 /\ Len(r.methods) - r.idx = 2)

\* C6: two attach calls of one run are never made in the same scheduler turn,
\* and the later one is made at least the configured delay after the earlier.
C6_DelayBetweenAttaches ==
  \A i, j \in LogIdx :
    (i < j /\ attachLog[i].run = attachLog[j].run) =>
      /\ attachLog[j].turn > attachLog[i].turn
      /\ attachLog[j].time >= attachLog[i].time + runs[attachLog[i].run].cfgDelay

\* a run that made two attach calls with a positive configured delay
C6_Witness ==
  \E i, j \in LogIdx :
    /\ i < j
    /\ attachLog[i].run = attachLog[j].run
    /\ runs[attachLog[i].run].cfgDelay > 0

\* C7: the hooks installed over all target classes of one logger session
\* never number more than performance.maxHooks.
C7_SessionWithinMaxHooks ==
  session = "logger" => SumAttached(MaxTargets) <= runs[1].cfgMaxHooks

\* C8: any two attaches of a logger session, of the same target or not, are
\* made in different turns and at least the configured delay apart.
C8_SingleTimeline ==
  session = "logger" =>
    \A i, j \in LogIdx :
      i < j =>
        /\ attachLog[j].turn > attachLog[i].turn
        /\ attachLog[j].time >= attachLog[i].time + runs[attachLog[i].run].cfgDelay

\* C10: a failed install (no address, or the host rejecting the attach) is
\* counted in the run's failure count and does not end the run: a run only
\* finishes when every method within its budget has been attempted.
C10_FailureCountedRunContinues ==
  \A rid \in RunIds :
    LET r == runs[rid] IN
    /\ r.failed = CountKind(r.toInstall, r.idx, {"noaddr", "reject"})
    /\ r.state = "done" =>
         \/ r.idx = Len(r.toInstall)
         \/ r.kind = "hookMethods" /\ r.hooked >= r.maxHooks

\* a finished run in which a method was hooked after both kinds of failure
C10_Witness ==
  \E rid \in RunIds :
    LET r == runs[rid] IN
    /\ r.state = "done"
    /\ \E a, b, c \in 1..r.idx :
         /\ a < c /\ b < c
         /\ r.toInstall[a] = "noaddr"
         /\ r.toInstall[b] = "reject"
         /\ \E i \in LogIdx : attachLog[i].run = rid /\ attachLog[i].meth = c /\ attachLog[i].ok

(***************************************************************************)
(* Properties of the interceptor callbacks.                                *)
(***************************************************************************)
\* C2: no exception thrown while an intercepted call is handled leaves the
\* callback: onEnter and onLeave of every installed hook return to the host
\* normally, whichever installer attached them.
C2_NoExceptionEscapes ==
  \A i \in InvIds : inv[i].escaped = 0

\* C9: when onEnter ended before it stored the invocation's context, onLeave
\* of that invocation returns normally having formatted and logged nothing;
\* and a context that onLeave uses was stored by onEnter of the same invocation.
C9_LeaveNeedsOwnContext ==
  \A i \in InvIds :
    LET v == inv[i] IN
    (v.phase = "left" /\ hooks[v.hook] = "hookMethods") =>
      /\ ~v.ctx.stored => (v.leave = "noop" /\ v.logged = 0)
      /\ v.usedCtxOf # 0 => (v.ctx.stored /\ v.usedCtxOf = i)

\* two invocations of one hookMethods hook overlap; onEnter of the first
\* threw before storing its context, the second stored one, and both left
C9_Witness ==
  \E i, j \in InvIds :
    /\ i # j
    /\ inv[i].phase = "left" /\ inv[i].enter = "threw" /\ ~inv[i].ctx.stored
    /\ inv[j].phase = "left" /\ inv[j].leave = "used"
    /\ inv[i].hook = inv[j].hook
    /\ hooks[inv[i].hook] = "hookMethods"

(***************************************************************************)
(* Claims about the value formatters (specification SpecDecode).           *)
(***************************************************************************)
Formatters == {"formatArg", "formatReturn", "previewObject", "summarizeFieldValue"}

\* C3: for every input, and whatever memory read or metadata access fails
\* underneath, a call of formatArg, formatReturn, previewObject or
\* summarizeFieldValue returns a text and does not throw.
C3_FormattersNeverThrow ==
  lastCall.fn \in Formatters => ~lastCall.res.thrown /\ ~lastCall.res.isNull

\* the call decoded its value as a byte array: the value is a non-null
\* pointer whose header is readable, the declared type is a byte array, and
\* no earlier dispatch branch (Void, by-reference, enum) took the value
DecodedAsByteArray ==
  LET i == lastCall.input IN
  /\ lastCall.fn \in {"formatArg", "formatReturn", "summarizeFieldValue"}
  /\ i.p.k = "ptr" /\ i.p.a # 0
  /\ i.p.cell.hdrReadable
  /\ isByteArrayType(i.typeName)
  /\ ~lastCall.res.thrown
  /\ lastCall.fn = "formatArg" => ~isByRefType(i.typeName)
  /\ lastCall.fn # "summarizeFieldValue" => ~(i.type.present /\ i.type.hasClass /\ i.type.isEnum)

DeclaredLength == toInt32(lastCall.input.p.cell.hdr)

\* C4: when the length read from a byte-array header is negative or above
\* LIMITS.MAX_ARRAY_LENGTH, the formatter returns the bare label "Byte[]"
\* and its only raw read of the array is the length field.
C4_MalformedLengthBareLabel ==
  (DecodedAsByteArray /\ (DeclaredLength < 0 \/ DeclaredLength > MAX_ARRAY_LENGTH))
    => /\ lastCall.res.text = <<"B","y","t","e","[","]">>
       /\ lastCall.res.eff.reads = {<<lastCall.input.p.a, OFF_ARRAY_MAX_LENGTH>>}

\* a byte array that declares length -1 was formatted by formatArg
C4_Witness ==
  /\ DecodedAsByteArray
  /\ lastCall.fn = "formatArg"
  /\ DeclaredLength = -1
  /\ lastCall.res.text = <<"B","y","t","e","[","]">>

(***************************************************************************)
(* Claims about stopping (specification SpecLife).                         *)
(***************************************************************************)
\* C11: after a plugin was stopped (stop() or stopAll()), every listener it
\* attached is detached, except one whose own detach() threw.
C11_StoppedPluginHasNoActiveHook ==
  \A pl \in Plugins, h \in LifeIds :
    (plugState[pl] = "stopped" /\ life[h].owner = pl /\ ~life[h].brittle)
      => life[h].state = "detached"

(***************************************************************************)
(* Claims about the end of an installation run (specification SpecFair).   *)
(***************************************************************************)
\* the methods of run rid attempted so far are its first idx ones
Attempted(rid) == runs[rid].idx

RunAccounted(rid) ==
  LET r == runs[rid] IN
  /\ r.idx <= Len(r.toInstall)
  /\ r.hooked + r.failed = Attempted(rid)
  /\ r.state = "running" => r.due # NoTimer /\ r.report = <<>>
  /\ r.state = "done" =>
       /\ r.report # <<>>
       /\ r.report[1] = r.hooked /\ r.report[2] = r.failed
       /\ r.report[1] + r.report[2] = Attempted(rid)

\* a callback of a running run either attempts the next method or reports,
\* and a finished run is left alone
RunStep(rid) ==
  /\ runs[rid].state = "done" => runs'[rid] = runs[rid]
  /\ (runs[rid].state = "running" /\ runs'[rid] # runs[rid]) =>
       \/ runs'[rid].state = "running" /\ runs'[rid].idx = runs[rid].idx + 1
       \/ runs'[rid].state = "done" /\ runs'[rid].idx = runs[rid].idx

\* C12: every installation run comes to an end; its report is made once,
\* no method is attempted twice, and the report's installed + failed is the
\* number of methods attempted.
C12_RunTerminatesAccounted ==
  /\ [](\A rid \in RunIds : RunAccounted(rid))
  /\ [](\A i, j \in LogIdx :
          (attachLog[i].run = attachLog[j].run /\ attachLog[i].meth = attachLog[j].meth)
            => i = j)
  /\ [][\A rid \in RunIds : RunStep(rid)]_vars
  /\ \A rid \in RunIds : (runs[rid].state = "running") ~> (runs[rid].state = "done")

C12_Witness ==
  \E rid \in RunIds :
    /\ runs[rid].state = "done"
    /\ runs[rid].hooked > 0 /\ runs[rid].failed > 0
    /\ runs[rid].report[1] + runs[rid].report[2] = Attempted(rid)
    /\ Attempted(rid) < Len(runs[rid].methods)

(***************************************************************************)
(* Claims about target resolution (specification SpecResolve).             *)
(***************************************************************************)
\* the classes of one assembly that its walk reads, in class order
RECURSIVE ReadClasses(_, _)
ReadClasses(assembly, n) ==
  IF n = 0 THEN <<>>
  ELSE IF \E i \in 1..n : assembly.classes[i].nameFails THEN ReadClasses(assembly, n - 1)
  ELSE Append(ReadClasses(assembly, n - 1), Match(assembly, assembly.classes[n]))

RECURSIVE Enumeration(_, _)
\* the classes read from the first k assemblies, assembly by assembly
Enumeration(assemblies, k) ==
  IF k = 0 THEN <<>>
  ELSE Enumeration(assemblies, k - 1) \o
       (IF assemblies[k].classesFail THEN <<>>
        ELSE ReadClasses(assemblies[k], Len(assemblies[k].classes)))

\* the match list of a target: the enumerated classes that match it
MatchList(target) ==
  SelectSeq(Enumeration(assembliesOf(domain, target), Len(assembliesOf(domain, target))),
            LAMBDA m : classMatches(m.klass, target))

Clamped(i, n) == IF i < 0 THEN 0 ELSE IF i > n - 1 THEN n - 1 ELSE i

\* C13: when N >= 1 classes match, findClass returns the match at pickIndex
\* clamped into [0, N-1] of the match list in assembly-then-class order, and a
\* repeated call with the same target returns the same candidate.
C13_PickClampedInEnumerationOrder ==
  (resolved.fn = "findClass" /\ Len(MatchList(resolved.target)) >= 1) =>
    /\ resolved.result =
         MatchList(resolved.target)[Clamped(resolved.target.pickIndex,
                                            Len(MatchList(resolved.target))) + 1]
    /\ resolved.latest = resolved.result

\* partial "Sample" against [SampleV2, LegacySample] with pickIndex 1
C13_Witness ==
  /\ resolved.fn = "findClass"
  /\ resolved.repeats >= 1
  /\ domain = <<Assembly(<<"G","a","m","e">>, <<SampleV2, LegacySample>>)>>
  /\ resolved.target.className = <<"S","a","m","p","l","e">>
  /\ resolved.target.allowPartial
  /\ resolved.target.pickIndex = 1
  /\ resolved.result = Match(domain[1], LegacySample)

\* C14: findClass returns no class for a target whose className is absent or
\* empty after normalizeTarget, in exact and in partial mode.
C14_NoClassWithoutClassName ==
  (resolved.fn = "findClass" /\ resolved.target.className = <<>>) =>
    resolved.result.kind = "null"

\* the walk of assembly a throws: at image.classes or at one of its classes
WalkThrows(a) == a.classesFail \/ \E i \in 1..Len(a.classes) : a.classes[i].nameFails

\* C16: an assembly whose class enumeration throws contributes no candidate:
\* the class findClass returns is never one of that assembly.
C16_ThrowingAssemblyContributesNothing ==
  (resolved.fn = "findClass" /\ resolved.result.kind = "match") =>
    \A k \in 1..Len(domain) :
      WalkThrows(domain[k]) => resolved.result.assembly # domain[k].name

\* C15: whatever the filters (an invalid regex included), the list that
\* buildMethodList returns holds no method whose address is null or
\* unreadable and no method whose name is in the normalized exclude set.
C15_ListHasAddressesAndNoExcluded ==
  resolved.fn = "buildMethodList" =>
    \A k \in 1..Len(resolved.list) :
      /\ resolved.list[k].addr = "ok"
      /\ resolved.list[k].hookAddress
      /\ resolved.list[k].name \notin excludeSet(resolved.filters)

\* an invalid regex, a method dropped for an exclude entry that needed
\* normalizing and a method dropped for having no address
C15_Witness ==
  /\ resolved.fn = "buildMethodList"
  /\ resolved.filters.methodRegex = InvalidRegex
  /\ resolved.filters.excludeIsArray
  /\ resolved.filters.exclude = <<Text(<<"G","a","m","e",".","P","l","a","y","e","r",".","U","p","d","a","t","e","(","i","n","t",")">>)>>
  /\ resolved.methods = <<Method(<<"U","p","d","a","t","e">>, "ok"), Method(<<"g","e","t","_","N","a","m","e">>, "undef")>>
  /\ resolved.list = <<>>

(***************************************************************************)
(* Claims about the decode dispatch (specification SpecDecode).            *)
(***************************************************************************)
\* C17: for a null or zero pointer, whatever the declared type, formatArg
\* and formatReturn return "null" without attempting a memory read or
\* entering a later branch of the dispatch.
C17_NullCheckedFirst ==
  (/\ lastCall.fn \in {"formatArg", "formatReturn"}
   /\ lastCall.input.p \in {Undef, NullPtr}
   /\ lastCall.input.typeName # <<"V","o","i","d">>) =>
    /\ ~lastCall.res.thrown
    /\ ~lastCall.res.isNull
    /\ lastCall.res.text = <<"n","u","l","l">>
    /\ lastCall.res.eff.reads = {}

\* the value decoded is a list or dictionary whose header count is negative
\* or above LIMITS.MAX_ARRAY_LENGTH
MalformedCount ==
  /\ lastCall.fn \in Formatters
  /\ lastCall.input.p.k = "ptr"
  /\ lastCall.input.p.cell.kind = "collection"
  /\ lastCall.input.p.cell.countReadable
  /\ (lastCall.input.p.cell.count < 0 \/ lastCall.input.p.cell.count > MAX_ARRAY_LENGTH)

\* C18: when the count in a list or dictionary header is negative or above
\* the cap, the text returned does not report that count and no entry of the
\* collection is read.
C18_MalformedCountNotReported ==
  MalformedCount =>
    /\ \A k \in 1..Len(lastCall.res.text) :
         lastCall.res.text[k] # ToString(lastCall.input.p.cell.count)
    /\ \A loc \in lastCall.res.eff.reads : loc[1] # entriesAddr(lastCall.input.p.a)

\* the data indices of the array that the call read
DataIndices ==
  {loc[2] - OFF_ARRAY_DATA :
     loc \in {l \in lastCall.res.eff.reads :
                l[1] = lastCall.input.p.a /\ l[2] >= OFF_ARRAY_DATA}}

SamplesPerArray == 4

\* C19: for a byte array of valid length L, the bytes read are at most
\* maxPreviewBytes (20) leading ones plus at most four sampled ones, all at
\* indices in [0, L).
C19_BoundedPreviewReads ==
  (DecodedAsByteArray /\ DeclaredLength >= 0 /\ DeclaredLength <= MAX_ARRAY_LENGTH) =>
    /\ \A i \in DataIndices : 0 <= i /\ i < DeclaredLength
    /\ Cardinality({i \in DataIndices : i >= DefaultPreviewBytes}) <= SamplesPerArray
    /\ Cardinality(DataIndices) <= DefaultPreviewBytes + SamplesPerArray

\* an all-zero array of 1000 bytes: the 20 leading bytes and the four
\* samples were read
C19_Witness ==
  /\ DecodedAsByteArray
  /\ DeclaredLength = 1000
  /\ DataIndices = 0..(DefaultPreviewBytes - 1) \cup {250, 500, 750, 999}
  /\ lastCall.res.text = <<"B","y","t","e","[">> \o <<"1000">> \o <<"]"," ","[","e","m","p","t","y","]">>

\* the call decoded its value as a string longer than the maximum: a
\* readable System.String handed to formatArg or formatReturn under the type
\* name System.String, with no enum type taking the value first
DecodedLongString ==
  LET i == lastCall.input IN
  /\ lastCall.fn \in {"formatArg", "formatReturn"}
  /\ i.typeName = <<"S","y","s","t","e","m",".","S","t","r","i","n","g">>
  /\ i.p.k = "ptr" /\ i.p.a # 0
  /\ i.p.cell.kind = "string" /\ ~i.p.cell.strFails
  /\ ~(i.type.present /\ (i.type.classFails \/ (i.type.hasClass /\ i.type.isEnum)))
  /\ Len(i.p.cell.content) > i.maxStrLen

RECURSIVE CharLength(_)
\* the number of characters of a text (a number is one element of several
\* characters)
CharLength(text) ==
  IF text = <<>> THEN 0 ELSE Len(Head(text)) + CharLength(Tail(text))

MarkerLength == 3

UnlimitedText ==
  LET i == lastCall.input IN
  IF /\ lastCall.fn \in {"formatArg", "formatReturn"}
     /\ i.maxStrLen = Unlimited
     /\ i.typeName = <<"S","y","s","t","e","m",".","S","t","r","i","n","g">>
     /\ i.p.k = "ptr" /\ i.p.a # 0
     /\ i.p.cell.kind = "string" /\ ~i.p.cell.strFails
  THEN <<i.p.cell.content>>
  ELSE IF /\ lastCall.fn = "previewObject"
          /\ i.config.formatting.strings.maxLength = Unlimited
          /\ i.p.k = "ptr" /\ i.p.a # 0
          /\ i.p.cell.kind = "string" /\ ~i.p.cell.strFails
  THEN <<i.p.cell.content>>
  ELSE IF /\ lastCall.fn = "previewObject"
          /\ i.config.formatting.strings.maxLength = Unlimited
          /\ i.config.formatting.objects.tryToString
          /\ i.p.k = "ptr" /\ i.p.a # 0
          /\ i.p.cell.kind = "object" /\ ~i.p.cell.ctorFails /\ ~i.p.cell.classFails
          /\ i.p.cell.toStr.has /\ ~i.p.cell.toStr.fails /\ ~i.p.cell.toStr.null
  THEN <<i.p.cell.toStr.content>>
  ELSE <<>>

\* C21: with a maximum string length of -1 a string (read from the target or
\* returned by ToString()) is rendered in full: the output holds every
\* character of it and no "..." is added.
C21_UnlimitedRendersInFull ==
  \A s \in {UnlimitedText[n] : n \in 1..Len(UnlimitedText)} :
    /\ includes(lastCall.res.text, s)
    /\ ~includes(lastCall.res.text, <<".", ".", ".">>)

(***************************************************************************)
(* The classification cache.                                               *)
(***************************************************************************)
\* C22: whatever queries filled the classification cache, isListClass and
\* isDictionaryClass answer for every class what they answer on an empty
\* cache, that is what the metadata check itself says.
C22_CachedAnswerIsMetadataAnswer ==
  \A p \in Objects :
    /\ isListClass(p.cell, NewEff(classTypeCache, enumCache)).b
         = isListClass(p.cell, NewEff(EmptyMap, EmptyMap)).b
    /\ isDictionaryClass(p.cell, NewEff(classTypeCache, enumCache)).b
         = isDictionaryClass(p.cell, NewEff(EmptyMap, EmptyMap)).b

(***************************************************************************)
(* Formatting the same value twice.                                        *)
(***************************************************************************)
\* C23: when a formatter is called again on the same pointer, declared type
\* and configuration, it returns the text it returned the first time,
\* whatever other value was formatted before.
C23_SecondCallSameText ==
  [][(calls = 1 /\ calls' = 2) =>
       /\ lastCall'.fn = lastCall.fn
       /\ lastCall'.input = lastCall.input
       /\ lastCall'.res.thrown = lastCall.res.thrown
       /\ lastCall'.res.isNull = lastCall.res.isNull
       /\ lastCall'.res.text = lastCall.res.text]_vars

\* a list is previewed twice after it was previewed with dictionaries
\* switched off: the cache holds "list" and both calls print List[4]
C23_Witness ==
  /\ calls = 2
  /\ lastCall.fn = "previewObject"
  /\ lastCall.input.p = Ptr(ObjectAddr, CollectionCell(<<"L","i","s","t","~","1">>, 4, <<>>))
  /\ lastCall.input.config = Config(TRUE, TRUE, TRUE, "")
  /\ hasKey(classTypeCache, <<"S","y","s","t","e","m",".","C","o","l","l","e","c","t","i","o","n","s",".","G","e","n","e","r","i","c",".","L","i","s","t","~","1">>)
  /\ classTypeCache[<<"S","y","s","t","e","m",".","C","o","l","l","e","c","t","i","o","n","s",".","G","e","n","e","r","i","c",".","L","i","s","t","~","1">>] = "list"
  /\ lastCall.res.text = <<"L","i","s","t","[">> \o <<"4">> \o <<"]">>

(***************************************************************************)
(* What a formatter does to the target.                                    *)
(***************************************************************************)
\* C24: a formatter call only reads memory and metadata: it invokes no
\* method of the target.
C24_NoTargetMethodInvoked ==
  lastCall.fn \in Formatters => lastCall.res.eff.invoked = 0

(***************************************************************************)
(* Object dumps.                                                           *)
(***************************************************************************)
\* C25: with dump.deduplication on, a (type name, pointer) pair has at most
\* one dump block since dumpState was last cleared.
C25_OneBlockPerPair ==
  dumpConfig.deduplication => \A pair \in DumpPairs : dumped[pair] <= 1

\* the same object was handed over again after its block was printed, and
\* another object of the type was dumped since
C25_Witness ==
  /\ dumpConfig = DumpConfig(TRUE, 0)
  /\ dumped[<<<<"G","a","m","e",".","F","o","o">>, ObjectAddr>>] = 1
  /\ dumped[<<<<"G","a","m","e",".","F","o","o">>, FieldAddr>>] = 1
  /\ dumpKey(Ptr(ObjectAddr, BaseCell), <<"G","a","m","e",".","F","o","o">>) \in dumpState.seen
  /\ ~canDumpPtr(Ptr(ObjectAddr, BaseCell), <<"G","a","m","e",".","F","o","o">>, dumpConfig, dumpState).ok

\* blocks printed under one type name since the last clear
BlocksOfType(typeName) ==
  LET RECURSIVE Sum(_)
      Sum(S) == IF S = {} THEN 0
                ELSE LET x == CHOOSE y \in S : TRUE IN dumped[x] + Sum(S \ {x})
  IN Sum({pair \in DumpPairs : pair[1] = typeName})

\* C26: with maxPerType = M > 0, no type name has more than M objects
\* dumped, and no entry of countByType exceeds M.
C26_AtMostMaxPerType ==
  dumpConfig.maxPerType > 0 =>
    \A typeName \in DumpTypeNames :
      /\ BlocksOfType(typeName) <= dumpConfig.maxPerType
      /\ countOf(dumpState, typeName) <= dumpConfig.maxPerType

\* the type has reached its maximum of 2 and the next object is refused
C26_Witness ==
  /\ dumpConfig = DumpConfig(FALSE, 2)
  /\ BlocksOfType(<<"G","a","m","e",".","F","o","o">>) = 2
  /\ countOf(dumpState, <<"G","a","m","e",".","F","o","o">>) = 2
  /\ ~canDumpPtr(Ptr(FieldAddr, BaseCell), <<"G","a","m","e",".","F","o","o">>, dumpConfig, dumpState).ok

(***************************************************************************)
(* The plugin manager.                                                     *)
(***************************************************************************)
\* C27: startAll reaches the start step of exactly the plugins whose init
\* returned a truthy value, whatever the start of the others did; stopAll
\* reaches the stop step of each of them as well, and leaves activePlugins
\* empty.
C27_EveryLoadedPluginStepped ==
  /\ lifecycle.phase \in {"started", "stopped"} =>
       \A name \in PluginNames :
         lifecycle.start[name] # "none" <=> lifecycle.init[name] = "truthy"
  /\ lifecycle.phase = "stopped" =>
       /\ \A name \in PluginNames :
            lifecycle.stop[name] # "none" <=> lifecycle.init[name] = "truthy"
       /\ manager.activePlugins = <<>>

\* the start and the stop of the first plugin threw, the init of another
\* threw, and the plugin loaded last was started and stopped all the same
C27_Witness ==
  /\ lifecycle.phase = "stopped"
  /\ lifecycle.init = [name \in PluginNames |->
                         IF name = "other" THEN "throws" ELSE "truthy"]
  /\ lifecycle.start["logger"] = "throws" /\ lifecycle.start["combat-anim"] = "ok"
  /\ lifecycle.stop["logger"] = "throws" /\ lifecycle.stop["combat-anim"] = "ok"
  /\ lifecycle.start["other"] = "none" /\ lifecycle.stop["other"] = "none"
  /\ manager.activePlugins = <<>>

(***************************************************************************)
(* The skip mode of the combat-anim plugin.                                *)
(***************************************************************************)
\* C28: with skip.dedupe on, the finish method of a step returns normally
\* at most once.
C28_FinishedAtMostOnce ==
  skipConfig.dedupe => \A s \in Steps : finishes[s] <= 1

\* C29: once stop() has returned, no finishStep call invokes a finish
\* method of the target any more.
C29_NoInvokeAfterStop ==
  [][animState.stopped => \A s \in Steps : invoking(s)' <= invoking(s)]_vars


(***************************************************************************)
(* A claim about the exclude entries as written (specification            *)
(* SpecResolve).                                                           *)
(***************************************************************************)
\* C30: a method whose name is, letter for letter, an entry of the array
\* filters.exclude is absent from the list buildMethodList returns, also
\* when the name begins with a dot or contains one.
C30_LiterallyExcludedAbsent ==
  (resolved.fn = "buildMethodList" /\ resolved.filters.excludeIsArray) =>
    \A k \in 1..Len(resolved.list) :
      \A j \in 1..Len(resolved.filters.exclude) :
        resolved.filters.exclude[j].isString =>
          resolved.list[k].name # resolved.filters.exclude[j].text

====
